---- MODULE Spec2Model ----
(***************************************************************************)
(* Model of the document-understanding pipeline of the AI strategy         *)
(* planning system: score card, scenario simulator, document Q&A and text  *)
(* extractor.  Strings the code inspects character by character are        *)
(* sequences of one-character strings; other strings are TLA+ strings.     *)
(***************************************************************************)
EXTENDS Integers, Sequences, FiniteSets, TLC

VARIABLES
    call,           \* name of the function invoked last ("none" at start)
    swot,           \* calculate_strategic_scores: argument swot (key -> list length)
    intents,        \* calculate_strategic_scores: argument intents
    scores,         \* calculate_strategic_scores: returned dict
    base_scores,    \* simulate_scenario: argument base_scores
    scenario_type,  \* simulate_scenario: argument scenario_type
    simulated,      \* simulate_scenario: the dict before the clamping loop
    sim_result,     \* simulate_scenario: returned dict
    sim_error,      \* simulate_scenario: exception raised ("none" if it returned)
    question,       \* get_document_answer: argument question
    raw_text,       \* get_document_answer: argument raw_text
    nltk_available, \* get_document_answer: whether nltk and its punkt data load
    sentences,      \* get_document_answer: the list sentences when it ends
    vectorizer_called, \* get_document_answer: fit_transform was called
    similarities,   \* get_document_answer: the similarities (thousandths)
    answer,         \* get_document_answer: returned value
    qa_error,       \* get_document_answer: exception raised ("none" if it returned)
    file,           \* extract_text: the file at the argument filepath
    extracted,      \* extract_text: returned text
    readers,        \* extract_text: the readers it invoked, in order
    extract_error,  \* extract_text: exception raised ("none" if it returned)
    kp_tokens,      \* extract_key_phrases: word_tokenize(text), the tokens of the argument
    top_n,          \* extract_key_phrases: argument top_n
    key_phrases,    \* extract_key_phrases: returned list
    sum_doc,        \* generate_summary: the sentences of the argument text, each a list of words
    num_sentences,  \* generate_summary: argument num_sentences
    sentence_scores, \* generate_summary: the dict sentence_scores as (sentence, score) pairs
    summary,        \* generate_summary: returned string
    intent_text,    \* detect_business_intent: argument text
    intent_counts,  \* detect_business_intent: the dict scores
    detected,       \* detect_business_intent: returned list
    swot_text,      \* generate_swot: argument text
    swot_result,    \* generate_swot: returned dict
    syn_intents,    \* generate_initial_strategy: argument intents
    syn_swot,       \* generate_initial_strategy: argument swot
    strategies,     \* generate_initial_strategy: returned list
    kpi_intents,    \* generate_kpis: argument intents
    kpis,           \* generate_kpis: returned list, as the set of its entries
    plan_strategies, \* generate_action_plan: argument strategies
    action_plan,    \* generate_action_plan: returned list
    api_outcome,    \* user_documents: what the generative API call of this upload did
    stored_doc,     \* user_documents: the strategic data of the inserted document
    upload_error,   \* user_documents: exception raised ("none" if it returned)
    prio_strategies, \* strategies given to prioritize_strategies
    prio_swot, \* swot given to prioritize_strategies
    prioritized, \* list returned by prioritize_strategies
    prio_swot_again, \* swot given to the second call on the same strategies
    prioritized_again, \* list returned by the second call
    llm_api, \* outcome of the generative API call of the last call site
    llm_scenario, \* scenario_type given to simulate_scenario_llm
    llm_result, \* value returned by the call site
    doc_record, \* cached fields of the active document record (performance_metrics, scenario_<tag>)
    first_stored, \* for each cached field, the value stored in it first
    api_calls, \* for each cached field, the number of API calls made for it
    requests, \* per worker, the request it is handling and how far it is
    served, \* number of requests accepted so far
    users, \* the users collection: email to stored record
    sessions, \* per browser, the dict of its Flask session
    documents, \* the documents collection: _id to the owner field of the record
    inserted, \* number of documents inserted so far (the next _id follows it)
    response \* the last response sent: who asked, for which route, the outcome and the documents read for it

vars == <<call, swot, intents, scores, base_scores, scenario_type, simulated,
          sim_result, sim_error, question, raw_text, nltk_available, sentences,
          vectorizer_called, similarities, answer, qa_error, file, extracted, readers,
          extract_error, kp_tokens, top_n, key_phrases, sum_doc, num_sentences,
          sentence_scores, summary, intent_text, intent_counts, detected, swot_text,
          swot_result, syn_intents, syn_swot, strategies, kpi_intents, kpis,
          plan_strategies, action_plan, api_outcome, stored_doc, upload_error,
          prio_strategies, prio_swot, prioritized, prio_swot_again, prioritized_again,
          llm_api, llm_scenario, llm_result,
          doc_record, first_stored, api_calls, requests, served,
          users, sessions, documents, inserted, response>>

scoreVars == <<swot, intents, scores>>
simVars == <<base_scores, scenario_type, simulated, sim_result, sim_error>>
qaVars == <<question, raw_text, nltk_available, sentences, vectorizer_called,
            similarities, answer, qa_error>>
exVars == <<file, extracted, readers, extract_error>>
kpVars == <<kp_tokens, top_n, key_phrases>>
sumVars == <<sum_doc, num_sentences, sentence_scores, summary>>
diVars == <<intent_text, intent_counts, detected>>
swVars == <<swot_text, swot_result>>
synVars == <<syn_intents, syn_swot, strategies>>
kpiVars == <<kpi_intents, kpis>>
planVars == <<plan_strategies, action_plan>>
upVars == <<api_outcome, stored_doc, upload_error>>
prioVars == <<prio_strategies, prio_swot, prioritized, prio_swot_again, prioritized_again>>
llmVars == <<llm_api, llm_scenario, llm_result>>
cacheVars == <<doc_record, first_stored, api_calls, requests, served>>
webVars == <<users, sessions, documents, inserted, response>>

\* ------------------------------------------------------------------------
\* Bounds
\* ------------------------------------------------------------------------
MaxItems == 8       \* longest SWOT list given to calculate_strategic_scores
MaxBase == 100      \* largest base readiness / risk given to simulate_scenario
MaxSentences == 2   \* most pool sentences joined into one generated document
MaxPages == 2       \* most pages of a PDF file
MaxTokens == 4      \* most tokens of a text given to extract_key_phrases
MaxTopN == 4        \* largest top_n given to extract_key_phrases
MaxDocSentences == 3 \* most sentences of a text given to generate_summary
MaxNumSentences == 2 \* largest num_sentences given to generate_summary
MaxIntentWords == 3 \* most phrases of a text given to detect_business_intent
MaxSwotWords == 3   \* most phrases of a text given to generate_swot
MaxIntents == 3     \* most intents given to generate_initial_strategy and generate_kpis
MaxStrategies == 4  \* most strategies given to generate_action_plan
MaxPriorities == 3  \* most strategies given to prioritize_strategies
MaxWorkers == 2     \* request workers of the web server
MaxRequests == 3    \* most requests for the cached pages of one document
MaxClients == 2     \* browsers that hold a session
MaxDocuments == 2   \* most documents uploaded

\* ------------------------------------------------------------------------
\* Python helpers
\* ------------------------------------------------------------------------
None == [x \in {} |-> 0]

Max(a, b) == IF a >= b THEN a ELSE b
Min(a, b) == IF a <= b THEN a ELSE b

LowerLetters == <<"a", "b", "c", "d", "e", "f", "g", "h", "i", "j", "k", "l", "m",
                  "n", "o", "p", "q", "r", "s", "t", "u", "v", "w", "x", "y", "z">>
UpperLetters == <<"A", "B", "C", "D", "E", "F", "G", "H", "I", "J", "K", "L", "M",
                  "N", "O", "P", "Q", "R", "S", "T", "U", "V", "W", "X", "Y", "Z">>

Range(s) == {s[i] : i \in DOMAIN s}
IsLower(c) == c \in Range(LowerLetters)
IsUpper(c) == c \in Range(UpperLetters)
IndexOf(c, s) == CHOOSE i \in DOMAIN s : s[i] = c
ToUpper(c) == IF IsLower(c) THEN UpperLetters[IndexOf(c, LowerLetters)] ELSE c
ToLower(c) == IF IsUpper(c) THEN LowerLetters[IndexOf(c, UpperLetters)] ELSE c

\* str.replace(old, new) for one-character old and new
ReplaceChar(s, old, new) == [i \in DOMAIN s |-> IF s[i] = old THEN new ELSE s[i]]

\* str.title(): scan left to right remembering whether the previous
\* character was cased; a cased character becomes upper case after an
\* uncased one and lower case after a cased one.
RECURSIVE TitleFrom(_, _, _)
TitleFrom(s, i, previous_is_cased) ==
    IF i > Len(s) THEN <<>>
    ELSE LET c == s[i]
             cased == IsLower(c) \/ IsUpper(c)
             out == IF ~cased THEN c
                    ELSE IF previous_is_cased THEN ToLower(c) ELSE ToUpper(c)
         IN <<out>> \o TitleFrom(s, i + 1, cased)

Title(s) == TitleFrom(s, 1, FALSE)

\* ------------------------------------------------------------------------
\* strategy_generator.calculate_strategic_scores
\* ------------------------------------------------------------------------
SwotKeys == {"strengths", "weaknesses", "opportunities", "threats"}

\* len(swot.get(key, []))
SwotCount(sw, key) == IF key \in DOMAIN sw THEN sw[key] ELSE 0

GeneralStrategy == <<"G", "e", "n", "e", "r", "a", "l", " ", "S", "t", "r", "a", "t", "e", "g", "y">>

\* the Medium band closed at 60 instead of open
RiskLabel_inclusive(risk_score) ==
    IF risk_score < 30 THEN "Low"
    ELSE IF risk_score <= 60 THEN "Medium"
    ELSE "Critical"

RiskLabel(risk_score) ==
    IF risk_score < 30 THEN "Low"
    ELSE IF risk_score < 60 THEN "Medium"
    ELSE "Critical"

ReadinessLabel(readiness) ==
    IF readiness > 75 THEN "Strong"
    ELSE IF readiness > 50 THEN "Moderate"
    ELSE "Needs Improvement"

Focus(ints) ==
    IF ints # <<>> THEN Title(ReplaceChar(ints[1], "_", " ")) ELSE GeneralStrategy

\* the mis-weighted score of the function's own comment
\* (+15 per strength, +10 per opportunity, -10 per weakness, -5 per threat)
RawReadiness_comment(s_count, w_count, o_count, t_count) ==
    50 + (s_count * 15) + (o_count * 10) - (w_count * 10) - (t_count * 5)

RawReadiness(s_count, w_count, o_count, t_count) ==
    50 + (s_count * 10) + (o_count * 5) - (w_count * 5) - (t_count * 2)

\* clamping to the 0..100 of the section comments instead of 10..98
ClampReadiness_percent(readiness) == Max(0, Min(readiness, 100))

ClampReadiness(readiness) == Max(10, Min(readiness, 98))

RawRisk(w_count, t_count) == (t_count * 15) + (w_count * 5)

ClampRisk(risk_score) == Max(5, Min(risk_score, 95))

calculate_strategic_scores(sw, ints) ==
    LET s_count == SwotCount(sw, "strengths")
        w_count == SwotCount(sw, "weaknesses")
        o_count == SwotCount(sw, "opportunities")
        t_count == SwotCount(sw, "threats")
        readiness == ClampReadiness(RawReadiness(s_count, w_count, o_count, t_count))
        risk_score == ClampRisk(RawRisk(w_count, t_count))
    IN [readiness |-> readiness,
        readiness_label |-> ReadinessLabel(readiness),
        risk |-> risk_score,
        risk_label |-> RiskLabel(risk_score),
        focus |-> Focus(ints)]

\* Inputs: every SWOT dict with any subset of the four keys and list
\* lengths up to MaxItems; intents lists as the classifier, the
\* generative API or its fallback produce them.
SwotInputs == UNION {[keys -> 0..MaxItems] : keys \in SUBSET SwotKeys}

IntentStrings == {
    <<"m", "a", "r", "k", "e", "t", "_", "e", "x", "p", "a", "n", "s", "i", "o", "n">>,
    <<"c", "o", "s", "t", "_", "r", "e", "d", "u", "c", "t", "i", "o", "n">>,
    <<"G", "e", "n", "e", "r", "a", "l", " ", "S", "t", "r", "a", "t", "e", "g", "y">>,
    <<"b", "2", "b", "_", "s", "a", "l", "e", "s">>,
    <<"r", "i", "s", "k", "M", "g", "m", "t">>,
    <<>> }

IntentInputs ==
    {<<>>} \cup {<<a>> : a \in IntentStrings}
        \cup {<< <<"c", "o", "s", "t", "_", "r", "e", "d", "u", "c", "t", "i", "o", "n">>,
                 <<"m", "a", "r", "k", "e", "t", "_", "e", "x", "p", "a", "n", "s", "i", "o", "n">> >>}

CalculateStrategicScores ==
    /\ call = "none"
    /\ \E sw \in SwotInputs, ints \in IntentInputs :
        /\ call' = "calculate_strategic_scores"
        /\ swot' = sw
        /\ intents' = ints
        /\ scores' = calculate_strategic_scores(sw, ints)
        /\ UNCHANGED <<simVars, qaVars, exVars, kpVars, sumVars, diVars, swVars, synVars,
                       kpiVars, planVars, upVars, prioVars, llmVars, cacheVars, webVars>>

\* ------------------------------------------------------------------------
\* strategy_generator.simulate_scenario
\* ------------------------------------------------------------------------
GrowthExplanation == "Prioritizing growth will maximize revenue potential but significantly increase risk exposure and operational costs due to aggressive expansion."
CostExplanation == "Focusing on cost reduction will drastically improve margins and stability, but may slow down market capture and revenue growth."
RiskExplanation == "A defensive strategy ensures maximum compliance and stability, protecting the business from external threats at the cost of rapid expansion."

\* the growth branch leaving the risk untouched
ScenarioBranch_norisk(base, tag) ==
    IF tag = "growth" THEN
        [readiness |-> base.readiness + 10, risk |-> base.risk,
         revenue |-> 85, cost_efficiency |-> 40, stability |-> 45,
         focus |-> "Market Expansion", explanation |-> GrowthExplanation]
    ELSE IF tag = "cost" THEN
        [readiness |-> base.readiness - 5, risk |-> base.risk - 15,
         revenue |-> 45, cost_efficiency |-> 90, stability |-> 75,
         focus |-> "Operational Efficiency", explanation |-> CostExplanation]
    ELSE IF tag = "risk" THEN
        [readiness |-> base.readiness - 10, risk |-> base.risk - 30,
         revenue |-> 40, cost_efficiency |-> 60, stability |-> 95,
         focus |-> "Risk Mitigation", explanation |-> RiskExplanation]
    ELSE [readiness |-> base.readiness, risk |-> base.risk,
          revenue |-> 50, cost_efficiency |-> 50, stability |-> 50]

\* dict after the if / elif chain, before the clamping loop
ScenarioBranch(base, tag) ==
    LET start == [readiness |-> base.readiness, risk |-> base.risk,
                  revenue |-> 50, cost_efficiency |-> 50, stability |-> 50]
    IN IF tag = "growth" THEN
           [readiness |-> start.readiness + 10, risk |-> start.risk + 20,
            revenue |-> 85, cost_efficiency |-> 40, stability |-> 45,
            focus |-> "Market Expansion", explanation |-> GrowthExplanation]
       ELSE IF tag = "cost" THEN
           [readiness |-> start.readiness - 5, risk |-> start.risk - 15,
            revenue |-> 45, cost_efficiency |-> 90, stability |-> 75,
            focus |-> "Operational Efficiency", explanation |-> CostExplanation]
       ELSE IF tag = "risk" THEN
           [readiness |-> start.readiness - 10, risk |-> start.risk - 30,
            revenue |-> 40, cost_efficiency |-> 60, stability |-> 95,
            focus |-> "Risk Mitigation", explanation |-> RiskExplanation]
       ELSE start

Metrics == {"readiness", "risk", "revenue", "cost_efficiency", "stability"}

\* clamping to the 0..100 the loop's comment announces
ClampMetric_percent(v) == Max(0, Min(v, 100))

ClampMetric(v) == Max(5, Min(v, 98))

\* the clamping loop, then simulated["confidence"] = 85
ClampAll(sim) ==
    [k \in DOMAIN sim \cup {"confidence"} |->
        IF k = "confidence" THEN 85
        ELSE IF k \in Metrics THEN ClampMetric(sim[k])
        ELSE sim[k]]

simulate_scenario(base, tag) == ClampAll(ScenarioBranch(base, tag))

BaseInputs == [readiness : 0..MaxBase, risk : 0..MaxBase]
ScenarioTags == {"growth", "cost", "risk", "premium", ""}

SimulateScenario ==
    /\ call = "none"
    /\ \E base \in BaseInputs, tag \in ScenarioTags :
        /\ call' = "simulate_scenario"
        /\ base_scores' = base
        /\ scenario_type' = tag
        /\ simulated' = ScenarioBranch(base, tag)
        /\ sim_result' = ClampAll(simulated')
        /\ sim_error' = "none"
        /\ UNCHANGED <<scoreVars, qaVars, exVars, kpVars, sumVars, diVars, swVars,
                       synVars, kpiVars, planVars, upVars, prioVars, llmVars, cacheVars,
                       webVars>>

\* base_scores["readiness"] / base_scores["risk"] on a dict lacking the key
SimulateScenarioKeyError ==
    /\ call = "none"
    /\ \E base \in {None, [readiness |-> 50], [risk |-> 20]}, tag \in ScenarioTags :
        /\ call' = "simulate_scenario"
        /\ base_scores' = base
        /\ scenario_type' = tag
        /\ simulated' = None
        /\ sim_result' = None
        /\ sim_error' = "KeyError"
        /\ UNCHANGED <<scoreVars, qaVars, exVars, kpVars, sumVars, diVars, swVars,
                       synVars, kpiVars, planVars, upVars, prioVars, llmVars, cacheVars,
                       webVars>>

\* ------------------------------------------------------------------------
\* chat_processor: character classes of the regular expressions
\* ------------------------------------------------------------------------
Digits == {"0", "1", "2", "3", "4", "5", "6", "7", "8", "9"}

\* \w
IsWordChar(c) == IsLower(c) \/ IsUpper(c) \/ c \in Digits \/ c = "_"

\* \s
IsSpace(c) == c \in {" ", "\n", "\t", "U+00A0", "U+2003"}

RECURSIVE LStrip(_)
LStrip(s) == IF s # <<>> /\ IsSpace(s[1]) THEN LStrip(Tail(s)) ELSE s

RECURSIVE RStrip(_)
RStrip(s) ==
    IF s # <<>> /\ IsSpace(s[Len(s)]) THEN RStrip(SubSeq(s, 1, Len(s) - 1)) ELSE s

\* str.strip()
Strip(s) == RStrip(LStrip(s))

\* re.split on one-character separators: the pieces between the separator
\* positions `points', from position i on, the current piece starting at start
RECURSIVE PiecesFrom(_, _, _, _)
PiecesFrom(text, start, i, points) ==
    IF i > Len(text) THEN <<SubSeq(text, start, Len(text))>>
    ELSE IF i \in points
         THEN <<SubSeq(text, start, i - 1)>> \o PiecesFrom(text, i + 1, i + 1, points)
         ELSE PiecesFrom(text, start, i + 1, points)

StrippedPieces(text, points) ==
    LET pieces == PiecesFrom(text, 1, 1, points)
    IN [i \in DOMAIN pieces |-> Strip(pieces[i])]

\* ------------------------------------------------------------------------
\* chat_processor.simple_sentence_splitter
\* ------------------------------------------------------------------------
SentenceEnd == {".", "?", "!"}

\* (?<=\.|\?|\!)\s : a whitespace character right after a sentence end
SentenceEndSpaces(text) ==
    {p \in 2..Len(text) : IsSpace(text[p]) /\ text[p - 1] \in SentenceEnd}

\* (?<!\w\.\w.) fails at p when the four characters before p look like "e.g."
AbbreviationBefore(text, p) ==
    /\ p - 4 >= 1
    /\ IsWordChar(text[p - 4])
    /\ text[p - 3] = "."
    /\ IsWordChar(text[p - 2])
    /\ text[p - 1] # "\n"

\* (?<![A-Z][a-z]\.) fails at p when the three characters before p look like "Mr."
TitleBefore(text, p) ==
    /\ p - 3 >= 1
    /\ IsUpper(text[p - 3])
    /\ IsLower(text[p - 2])
    /\ text[p - 1] = "."

RegexSplitPoints(text) ==
    {p \in SentenceEndSpaces(text) :
        ~AbbreviationBefore(text, p) /\ ~TitleBefore(text, p)}

MinFragment == 5

simple_sentence_splitter(text) ==
    SelectSeq(StrippedPieces(text, RegexSplitPoints(text)),
              LAMBDA s : Len(s) > MinFragment)

\* nltk.sent_tokenize: the punkt tokenizer breaks the text at some of the
\* whitespace that follows a sentence end (which ones depends on its trained
\* abbreviation model, hence the free parameter breaks) and returns the
\* pieces without the whitespace between them.
sent_tokenize(text, breaks) ==
    SelectSeq(StrippedPieces(text, breaks), LAMBDA s : s # <<>>)

\* ------------------------------------------------------------------------
\* chat_processor: TfidfVectorizer(stop_words='english').fit_transform and
\* cosine_similarity, in fixed point
\* ------------------------------------------------------------------------

\* the words of sklearn's English stop word list that occur in the inputs
ENGLISH_STOP_WORDS == {
    <<"t", "h", "e">>,
    <<"i", "s">>,
    <<"o", "f">>,
    <<"a", "n", "d">>,
    <<"t", "o">>,
    <<"i", "n">>,
    <<"i", "t">>,
    <<"b", "e">>,
    <<"w", "e">> }

\* a finished run of word characters is a token when it has two or more
\* characters (token_pattern \b\w\w+\b) and is not a stop word
EmitToken(run) ==
    IF Len(run) >= 2 /\ run \notin ENGLISH_STOP_WORDS THEN <<run>> ELSE <<>>

\* lowercase, then the maximal runs of word characters
RECURSIVE TokensFrom(_, _, _)
TokensFrom(s, i, run) ==
    IF i > Len(s) THEN EmitToken(run)
    ELSE IF IsWordChar(s[i]) THEN TokensFrom(s, i + 1, Append(run, ToLower(s[i])))
    ELSE EmitToken(run) \o TokensFrom(s, i + 1, <<>>)

Tokenize(s) == TokensFrom(s, 1, <<>>)

TokenLists(docs) == [i \in DOMAIN docs |-> Tokenize(docs[i])]

Vocabulary(tl) == UNION {Range(tl[i]) : i \in DOMAIN tl}

\* term frequency: raw count of the term in the document
Tf(toks, term) == Cardinality({j \in DOMAIN toks : toks[j] = term})

\* document frequency
Df(tl, term) == Cardinality({i \in DOMAIN tl : term \in Range(tl[i])})

\* smooth idf ln((1 + n) / (1 + df)) + 1 in hundredths, row n, column df
IdfTable == <<
    <<100>>,
    <<141, 100>>,
    <<169, 129, 100>>,
    <<192, 151, 122, 100>>,
    <<210, 169, 141, 118, 100>>,
    <<225, 185, 156, 134, 115, 100>>,
    <<239, 198, 169, 147, 129, 113, 100>>,
    <<250, 210, 181, 159, 141, 125, 112, 100>> >>

Idf(n, df) == IdfTable[n][df]

Weight(tl, i, term) == Tf(tl[i], term) * Idf(Len(tl), Df(tl, term))

RECURSIVE SumOver(_, _)
SumOver(S, f) ==
    IF S = {} THEN 0
    ELSE LET x == CHOOSE y \in S : TRUE
         IN f[x] + SumOver(S \ {x}, f)

Dot(tl, i, j) ==
    LET V == Vocabulary(tl)
    IN SumOver(V, [term \in V |-> Weight(tl, i, term) * Weight(tl, j, term)])

\* integer square root by bisection: lo * lo <= x < hi * hi
RECURSIVE ISqrtBetween(_, _, _)
ISqrtBetween(x, lo, hi) ==
    IF hi - lo <= 1 THEN lo
    ELSE LET mid == (lo + hi) \div 2
         IN IF mid * mid <= x THEN ISqrtBetween(x, mid, hi)
            ELSE ISqrtBetween(x, lo, mid)

ISqrt(x) == ISqrtBetween(x, 0, Min(x, 46339) + 1)

\* cosine similarity of documents i and j in thousandths; 0 for a zero vector
CosMilli(tl, i, j) ==
    IF Dot(tl, i, i) = 0 \/ Dot(tl, j, j) = 0 THEN 0
    ELSE (Dot(tl, i, j) * 1000) \div (ISqrt(Dot(tl, i, i)) * ISqrt(Dot(tl, j, j)))

\* np.argmax: the first index of the maximum
ArgMax(sims) ==
    CHOOSE i \in DOMAIN sims :
        /\ \A j \in DOMAIN sims : sims[j] <= sims[i]
        /\ \A j \in DOMAIN sims : j < i => sims[j] < sims[i]

\* ------------------------------------------------------------------------
\* chat_processor.get_document_answer
\* ------------------------------------------------------------------------
TooShortMessage == "The document appears to be empty or too short to analyze."
AskWordsMessage == "Please ask a question containing words, not just symbols."
CouldNotAnalyzeMessage == "I couldn't analyze the text structure. It might be too short or generic."
NoRelevantMessage == "No relevant content found."
CouldNotFindMessage == "I couldn't find a direct answer in the document. Try asking with different keywords found in the file."

\* a returned value is one of the fixed messages or a sentence of the list
Message(m) == [message |-> m, sentence |-> <<>>]
SentenceAnswer(s) == [message |-> "", sentence |-> s]
NoAnswer == [message |-> "", sentence |-> <<>>]

MinTextLen == 10

\* best_score > 0.1, in thousandths
Threshold == 100

\* a threshold that accepts a similarity of exactly 0
AboveThreshold_nonneg(best_score) == best_score >= 0

AboveThreshold(best_score) == best_score > Threshold

\* re.sub(r'[^\w\s]', '', question)
CleanQuestion(q) == SelectSeq(q, LAMBDA c : IsWordChar(c) \/ IsSpace(c))

\* the length check dropped: every text goes on to the splitter
TooShort_never(text) == FALSE

\* not raw_text or len(raw_text) < 10
TooShort(text) == Len(text) < MinTextLen

\* the question check accepting any non-empty question
NoWords_emptyonly(q) == q = <<>>

\* not clean_question.strip()
NoWords(q) == Strip(CleanQuestion(q)) = <<>>

\* steps 3 to 6, on the sentence list with the question appended
AnswerFromVectors(docs) ==
    LET tl == TokenLists(docs)
        q == Len(docs)
    IN IF Vocabulary(tl) = {} THEN
           \* fit_transform raises ValueError (empty vocabulary)
           [similarities |-> <<>>, answer |-> Message(CouldNotAnalyzeMessage),
            error |-> "none"]
       ELSE IF Len(docs) = 1 THEN
           \* cosine_similarity rejects the matrix without rows
           \* (check_pairwise_arrays: "Found array with 0 sample(s)")
           [similarities |-> <<>>, answer |-> NoAnswer, error |-> "ValueError"]
       ELSE LET sims == [i \in 1..(q - 1) |-> CosMilli(tl, q, i)]
                best_idx == ArgMax(sims)
                best_score == sims[best_idx]
            IN [similarities |-> sims,
                answer |-> IF AboveThreshold(best_score)
                           THEN SentenceAnswer(docs[best_idx])
                           ELSE Message(CouldNotFindMessage),
                error |-> "none"]

\* split is the sentence list of step 1 (NLTK or the regex splitter)
get_document_answer(q, text, split) ==
    IF TooShort(text) THEN
        [sentences |-> <<>>, vectorizer_called |-> FALSE, similarities |-> <<>>,
         answer |-> Message(TooShortMessage), error |-> "none"]
    ELSE IF NoWords(q) THEN
        [sentences |-> split, vectorizer_called |-> FALSE, similarities |-> <<>>,
         answer |-> Message(AskWordsMessage), error |-> "none"]
    ELSE LET docs == Append(split, q)
             r == AnswerFromVectors(docs)
         IN [sentences |-> docs, vectorizer_called |-> TRUE,
             similarities |-> r.similarities, answer |-> r.answer,
             error |-> r.error]

\* ------------------------------------------------------------------------
\* Documents and questions put to get_document_answer
\* ------------------------------------------------------------------------
RECURSIVE JoinWith(_, _)
JoinWith(seqs, sep) ==
    IF seqs = <<>> THEN <<>>
    ELSE IF Len(seqs) = 1 THEN seqs[1]
    ELSE seqs[1] \o sep \o JoinWith(Tail(seqs), sep)

SalesGrew == <<"s", "a", "l", "e", "s", " ", "g", "r", "e", "w", ".">>
CostsFell == <<"c", "o", "s", "t", "s", " ", "f", "e", "l", "l", ".">>
SalesFell == <<"s", "a", "l", "e", "s", " ", "f", "e", "l", "l", ".">>
StopWordsOnly == <<"t", "h", "e", " ", "i", "s", " ", "o", "f", " ", "t", "h", "e", ".">>
Ok == <<"o", "k", ".">>

SentencePool == {SalesGrew, CostsFell, SalesFell, StopWordsOnly, Ok}

\* sentences of the pool joined by one space
GeneratedTexts ==
    {JoinWith(ss, <<" ">>) :
        ss \in UNION {[1..n -> SentencePool] : n \in 0..MaxSentences}}

FragmentsOnly == <<"o", "k", ".", " ", "o", "k", ".", " ", "o", "k", ".", " ", "o",
                   "k", ".">>
TitleText == <<"M", "r", ".", " ", "s", "a", "l", "e", "s", " ", "g", "r", "e", "w",
               ".", " ", "c", "o", "s", "t", "s", " ", "f", "e", "l", "l", ".">>
AbbreviationText == <<"a", ".", "b", ".", " ", "s", "a", "l", "e", "s", " ", "g", "r",
                      "e", "w", ".", " ", "c", "o", "s", "t", "s", " ", "u", "p", ".">>
NewlineText == <<"c", "o", "s", "t", "s", " ", "f", "e", "l", "l", ".", "\n", "s", "a",
                 "l", "e", "s", " ", "g", "r", "e", "w", "!">>
BlankText == <<" ", " ", " ", " ", " ", " ", " ", " ", " ", " ">>
LongText == <<"a", "a", " ", "a", "b", " ", "a", "c", " ", "a", "d", " ", "a", "e",
              " ", "a", "f", " ", "a", "g", " ", "a", "h", " ", "a", "i", " ", "a",
              "j", " ", "a", "k", " ", "s", "a", "l", "e", "s", ".", " ", "c", "o",
              "s", "t", "s", " ", "f", "e", "l", "l", ".">>

Texts == GeneratedTexts
            \cup {FragmentsOnly, TitleText, AbbreviationText, NewlineText, BlankText, LongText}

QSales == <<"s", "a", "l", "e", "s", "?">>
QCostsFell == <<"C", "o", "s", "t", "s", " ", "f", "e", "l", "l">>
QSymbols == <<"?", "?", "?">>
QEmpty == <<>>
QBlank == <<" ", " ">>
QStopWord == <<"t", "h", "e">>
QProfit == <<"p", "r", "o", "f", "i", "t", " ", "m", "a", "r", "g", "i", "n">>
QLong == <<"b", "a", " ", "b", "b", " ", "b", "c", " ", "b", "d", " ", "b", "e", " ",
           "b", "f", " ", "b", "g", " ", "b", "h", " ", "b", "i", " ", "b", "j", " ",
           "b", "k", " ", "s", "a", "l", "e", "s">>
QLetter == <<"x">>
QSalesCosts == <<"s", "a", "l", "e", "s", " ", "c", "o", "s", "t", "s">>

Questions == {QSales, QCostsFell, QSymbols, QEmpty, QBlank, QStopWord, QProfit, QLong,
              QLetter, QSalesCosts}

GetDocumentAnswer ==
    /\ call = "none"
    /\ \E q \in Questions, text \in Texts, nltk \in BOOLEAN :
         \E breaks \in (IF nltk THEN SUBSET SentenceEndSpaces(text) ELSE {{}}) :
            LET split == IF nltk THEN sent_tokenize(text, breaks)
                         ELSE simple_sentence_splitter(text)
                r == get_document_answer(q, text, split)
            IN /\ call' = "get_document_answer"
               /\ question' = q
               /\ raw_text' = text
               /\ nltk_available' = nltk
               /\ sentences' = r.sentences
               /\ vectorizer_called' = r.vectorizer_called
               /\ similarities' = r.similarities
               /\ answer' = r.answer
               /\ qa_error' = r.error
               /\ UNCHANGED <<scoreVars, simVars, exVars, kpVars, sumVars, diVars, swVars,
                              synVars, kpiVars, planVars, upVars, prioVars, llmVars,
                              cacheVars, webVars>>

\* ------------------------------------------------------------------------
\* text_extractor.clean_text
\* ------------------------------------------------------------------------
ZWSP == "U+200B"        \* zero-width space
NBSP == "U+00A0"        \* no-break space

\* characters outside \x00-\x7F that occur in the inputs (e acute, em space)
NonAscii == {"U+00E9", "U+2003", ZWSP, NBSP}

\* step 1: text.replace(zero-width space, '').replace('\xa0', ' ')
ReplaceArtifacts(text) ==
    ReplaceChar(SelectSeq(text, LAMBDA c : c # ZWSP), NBSP, " ")

\* re.sub(pattern+, ' ', text) for a one-character class: every maximal run
\* of characters of the class becomes one space
RECURSIVE SubRunsFrom(_, _, _, _)
SubRunsFrom(text, i, InClass(_), in_run) ==
    IF i > Len(text) THEN <<>>
    ELSE IF InClass(text[i])
         THEN (IF in_run THEN <<>> ELSE <<" ">>) \o SubRunsFrom(text, i + 1, InClass, TRUE)
         ELSE <<text[i]>> \o SubRunsFrom(text, i + 1, InClass, FALSE)

\* step 2: re.sub(r'\s+', ' ', text)
CollapseWhitespace(text) == SubRunsFrom(text, 1, IsSpace, FALSE)

IsNonAscii(c) == c \in NonAscii

\* step 3: re.sub(r'[^\x00-\x7F]+', ' ', text)
FoldNonAscii(text) == SubRunsFrom(text, 1, IsNonAscii, FALSE)

clean_text(text) ==
    IF text = <<>> THEN <<>>
    ELSE Strip(FoldNonAscii(CollapseWhitespace(ReplaceArtifacts(text))))

\* ------------------------------------------------------------------------
\* text_extractor.extract_from_pdf
\* ------------------------------------------------------------------------
\* A reader of n pages fails at step fail_at: 0 is the opening of the file,
\* k in 1..n is extract_text of page k, n + 1 is no failure.
ReaderFails(pages, fail_at) == fail_at <= Len(pages)

\* text += page_text + "\n" for the pages read before the failure, skipping
\* pages without text
RECURSIVE PagesText(_, _, _)
PagesText(pages, i, last) ==
    IF i > last THEN <<>>
    ELSE (IF pages[i] # <<>> THEN pages[i] \o <<"\n">> ELSE <<>>)
            \o PagesText(pages, i + 1, last)

ReadPages(pages, fail_at) == PagesText(pages, 1, Min(fail_at - 1, Len(pages)))

\* the fallback's failure left unhandled
extract_from_pdf_unguarded(f) ==
    IF ~ReaderFails(f.plumber_pages, f.plumber_fail) THEN
        [text |-> clean_text(ReadPages(f.plumber_pages, f.plumber_fail)),
         readers |-> <<"pdfplumber">>, error |-> "none"]
    ELSE IF ReaderFails(f.pypdf_pages, f.pypdf_fail) THEN
        [text |-> <<>>, readers |-> <<"pdfplumber", "pypdf">>, error |-> "Exception"]
    ELSE
        [text |-> clean_text(ReadPages(f.plumber_pages, f.plumber_fail)
                                \o ReadPages(f.pypdf_pages, f.pypdf_fail)),
         readers |-> <<"pdfplumber", "pypdf">>, error |-> "none"]

extract_from_pdf(f) ==
    LET text_a == ReadPages(f.plumber_pages, f.plumber_fail)
    IN IF ~ReaderFails(f.plumber_pages, f.plumber_fail) THEN
           [text |-> clean_text(text_a), readers |-> <<"pdfplumber">>,
            error |-> "none"]
       ELSE IF ReaderFails(f.pypdf_pages, f.pypdf_fail) THEN
           \* both methods failed: return ""
           [text |-> <<>>, readers |-> <<"pdfplumber", "pypdf">>, error |-> "none"]
       ELSE
           \* the fallback appends to the text the first method left behind
           [text |-> clean_text(text_a \o ReadPages(f.pypdf_pages, f.pypdf_fail)),
            readers |-> <<"pdfplumber", "pypdf">>, error |-> "none"]

\* ------------------------------------------------------------------------
\* text_extractor.extract_from_docx
\* ------------------------------------------------------------------------
\* the paragraphs whose text is not blank
Paragraphs(f) == SelectSeq(f.paragraphs, LAMBDA p : Strip(p) # <<>>)

\* " | ".join of the non-blank cells of a row
RowText(row) == JoinWith(SelectSeq(row, LAMBDA cell : Strip(cell) # <<>>), <<" ", "|", " ">>)

\* one entry per table row that has a non-blank cell
RECURSIVE TableRows(_)
TableRows(rows) ==
    IF rows = <<>> THEN <<>>
    ELSE (IF RowText(rows[1]) # <<>> THEN <<RowText(rows[1])>> ELSE <<>>)
            \o TableRows(Tail(rows))

extract_from_docx(f) ==
    IF f.docx_fail THEN [text |-> <<>>, readers |-> <<"docx">>, error |-> "none"]
    ELSE [text |-> clean_text(JoinWith(Paragraphs(f) \o TableRows(f.rows), <<" ">>)),
          readers |-> <<"docx">>, error |-> "none"]

\* ------------------------------------------------------------------------
\* text_extractor.extract_text
\* ------------------------------------------------------------------------
\* os.path.splitext(filepath)[1].lower()
Ext(f) == [i \in DOMAIN f.ext |-> ToLower(f.ext[i])]

DotPdf == <<".", "p", "d", "f">>
DotDocx == <<".", "d", "o", "c", "x">>
DotDoc == <<".", "d", "o", "c">>
DotTxt == <<".", "t", "x", "t">>

ReadTxt(f) ==
    IF f.read_fail THEN [text |-> <<>>, readers |-> <<"open">>, error |-> "none"]
    ELSE [text |-> clean_text(f.content), readers |-> <<"open">>, error |-> "none"]

extract_text(f) ==
    IF ~f.exists THEN [text |-> <<>>, readers |-> <<>>, error |-> "none"]
    ELSE IF Ext(f) = DotPdf THEN extract_from_pdf(f)
    ELSE IF Ext(f) \in {DotDocx, DotDoc} THEN extract_from_docx(f)
    ELSE IF Ext(f) = DotTxt THEN ReadTxt(f)
    ELSE [text |-> <<>>, readers |-> <<>>, error |-> "none"]

\* ------------------------------------------------------------------------
\* Files given to extract_text
\* ------------------------------------------------------------------------
PageTexts == { <<>>, <<"a", "b">>, <<"a", " ", "U+00E9", " ", "b">> }

Contents == PageTexts \cup {
    <<" ", "a", "\n", "\n", "b", " ">>,
    <<"a", ZWSP, "b", NBSP, NBSP, "c">>,
    <<"a", "U+2003", "b", "U+0001", "c">>,
    <<"U+00E9", "U+00E9">>,
    <<" ", "\t", "\n">> }

PageLists == UNION {[1..n -> PageTexts] : n \in 0..MaxPages}

Extensions == { DotPdf, <<".", "P", "D", "F">>, DotDocx, DotDoc, DotTxt,
                <<".", "T", "x", "t">>, <<".", "c", "s", "v">>, <<>> }

\* fields a format does not use keep these values
BlankFile ==
    [exists |-> TRUE, ext |-> <<>>,
     plumber_pages |-> <<>>, plumber_fail |-> 1, pypdf_pages |-> <<>>, pypdf_fail |-> 1,
     paragraphs |-> <<>>, rows |-> <<>>, docx_fail |-> FALSE,
     content |-> <<>>, read_fail |-> FALSE]

PdfFiles ==
    {[BlankFile EXCEPT !.ext = e, !.plumber_pages = pa, !.plumber_fail = fa,
                       !.pypdf_pages = pb, !.pypdf_fail = fb] :
        e \in {DotPdf, <<".", "P", "D", "F">>},
        pa \in PageLists, fa \in 0..(MaxPages + 1),
        pb \in PageLists, fb \in 0..(MaxPages + 1)}

ValidPdf(f) ==
    /\ f.plumber_fail <= Len(f.plumber_pages) + 1
    /\ f.pypdf_fail <= Len(f.pypdf_pages) + 1
    \* the second reader is only looked at when the first one failed
    /\ ~ReaderFails(f.plumber_pages, f.plumber_fail)
            => (f.pypdf_pages = <<>> /\ f.pypdf_fail = 1)

RowLists == { <<>>, << <<<<"a", "b">>, <<" ">>, <<"c">>>> >>, << <<<<>>, <<" ">>>>, <<<<"c">>>> >> }

DocxFiles ==
    {[BlankFile EXCEPT !.ext = e, !.paragraphs = ps, !.rows = rs, !.docx_fail = df] :
        e \in {DotDocx, DotDoc}, ps \in UNION {[1..n -> Contents] : n \in 0..1} \cup
                                        {<< <<"a", "b">>, <<" ">>, <<"c">> >>},
        rs \in RowLists, df \in BOOLEAN}

TxtFiles ==
    {[BlankFile EXCEPT !.ext = e, !.content = c, !.read_fail = rf] :
        e \in {DotTxt, <<".", "T", "x", "t">>}, c \in Contents, rf \in BOOLEAN}

OtherFiles ==
    {[BlankFile EXCEPT !.ext = e, !.content = c] :
        e \in {<<".", "c", "s", "v">>, <<>>}, c \in Contents}

ExistingFiles == {f \in PdfFiles : ValidPdf(f)} \cup DocxFiles \cup TxtFiles \cup OtherFiles

\* a path that does not exist has an extension and nothing else
MissingFiles == {[BlankFile EXCEPT !.exists = FALSE, !.ext = e] : e \in Extensions}

Files == ExistingFiles \cup MissingFiles

ExtractText ==
    /\ call = "none"
    /\ \E f \in Files :
         LET r == extract_text(f)
         IN /\ call' = "extract_text"
            /\ file' = f
            /\ extracted' = r.text
            /\ readers' = r.readers
            /\ extract_error' = r.error
            /\ UNCHANGED <<scoreVars, simVars, qaVars, kpVars, sumVars, diVars, swVars,
                           synVars, kpiVars, planVars, upVars, prioVars, llmVars,
                           cacheVars, webVars>>

\* ------------------------------------------------------------------------
\* Properties of calculate_strategic_scores
\* ------------------------------------------------------------------------
ScoresReturned == call = "calculate_strategic_scores"

\* C1: for every SWOT input (any list lengths, empty lists, missing keys)
\* and any intents, the returned readiness lies in [10,98] and the
\* returned risk in [5,95].
C1_ScoresWithinRange ==
    ScoresReturned => /\ scores.readiness \in 10..98
                      /\ scores.risk \in 5..95

\* a call with a missing key in which both clamps act at their bounds
C1_Witness ==
    /\ ScoresReturned
    /\ "threats" \notin DOMAIN swot
    /\ "strengths" \in DOMAIN swot /\ swot["strengths"] = MaxItems
    /\ SwotCount(swot, "weaknesses") = 0
    /\ scores.readiness = 98
    /\ scores.risk = 5

Cardinality0(key) == IF key \in DOMAIN swot THEN swot[key] ELSE 0
ClampTo(x, lo, hi) == IF x < lo THEN lo ELSE IF x > hi THEN hi ELSE x

IsLetter(c) == IsLower(c) \/ IsUpper(c)

\* s with underscores replaced by spaces, in Title Case: every letter that
\* starts a run of letters is upper case, every other letter lower case
IsTitleCaseOf(f, s) ==
    /\ Len(f) = Len(s)
    /\ \A i \in DOMAIN s :
          IF s[i] = "_" THEN f[i] = " "
          ELSE IF IsLetter(s[i]) THEN
              IF i = 1 \/ ~IsLetter(s[i - 1]) THEN f[i] = ToUpper(s[i])
              ELSE f[i] = ToLower(s[i])
          ELSE f[i] = s[i]

\* C3: the labels are functions of the clamped scores (Low / Medium /
\* Critical at 30 and 60; Strong / Moderate / Needs Improvement at 75 and
\* 50) and focus is the first intent with underscores turned into spaces,
\* in Title Case, or "General Strategy" for an empty intents list.
C3_LabelsAndFocus ==
    ScoresReturned =>
        /\ scores.risk_label \in {"Low", "Medium", "Critical"}
        /\ (scores.risk_label = "Low") <=> (scores.risk < 30)
        /\ (scores.risk_label = "Medium") <=> (30 <= scores.risk /\ scores.risk < 60)
        /\ (scores.risk_label = "Critical") <=> (scores.risk >= 60)
        /\ scores.readiness_label \in {"Strong", "Moderate", "Needs Improvement"}
        /\ (scores.readiness_label = "Strong") <=> (scores.readiness > 75)
        /\ (scores.readiness_label = "Moderate")
              <=> (50 < scores.readiness /\ scores.readiness <= 75)
        /\ (scores.readiness_label = "Needs Improvement") <=> (scores.readiness <= 50)
        /\ IF intents = <<>>
           THEN scores.focus = <<"G", "e", "n", "e", "r", "a", "l", " ",
                                 "S", "t", "r", "a", "t", "e", "g", "y">>
           ELSE IsTitleCaseOf(scores.focus, intents[1])

\* a call on the Medium / Critical boundary with a snake_case first intent
C3_Witness ==
    /\ ScoresReturned
    /\ scores.risk = 60 /\ scores.risk_label = "Critical"
    /\ scores.readiness = 42 /\ scores.readiness_label = "Needs Improvement"
    /\ intents # <<>>
    /\ intents[1] = <<"m", "a", "r", "k", "e", "t", "_",
                      "e", "x", "p", "a", "n", "s", "i", "o", "n">>
    /\ scores.focus = <<"M", "a", "r", "k", "e", "t", " ",
                        "E", "x", "p", "a", "n", "s", "i", "o", "n">>

\* ------------------------------------------------------------------------
\* Properties of simulate_scenario
\* ------------------------------------------------------------------------
KnownTags == {"growth", "cost", "risk"}
ScenarioReturned == call = "simulate_scenario" /\ sim_error = "none"

ReadinessDelta(tag) == IF tag = "growth" THEN 10 ELSE IF tag = "cost" THEN -5 ELSE -10
RiskDelta(tag) == IF tag = "growth" THEN 20 ELSE IF tag = "cost" THEN -15 ELSE -30
RevenueOf(tag) == IF tag = "growth" THEN 85 ELSE IF tag = "cost" THEN 45 ELSE 40
CostEfficiencyOf(tag) == IF tag = "growth" THEN 40 ELSE IF tag = "cost" THEN 90 ELSE 60
StabilityOf(tag) == IF tag = "growth" THEN 45 ELSE IF tag = "cost" THEN 75 ELSE 95

\* C4: before clamping, growth gives readiness+10, risk+20, 85, 40, 45;
\* cost gives readiness-5, risk-15, 45, 90, 75; risk gives readiness-10,
\* risk-30, 40, 60, 95; and base (50, 20) with growth returns exactly
\* readiness 60, risk 40, revenue 85, cost_efficiency 40, stability 45.
C4_ScenarioDeltas ==
    (ScenarioReturned /\ scenario_type \in KnownTags) =>
        /\ simulated.readiness = base_scores.readiness + ReadinessDelta(scenario_type)
        /\ simulated.risk = base_scores.risk + RiskDelta(scenario_type)
        /\ simulated.revenue = RevenueOf(scenario_type)
        /\ simulated.cost_efficiency = CostEfficiencyOf(scenario_type)
        /\ simulated.stability = StabilityOf(scenario_type)
        /\ (base_scores.readiness = 50 /\ base_scores.risk = 20
                /\ scenario_type = "growth") =>
              /\ sim_result.readiness = 60
              /\ sim_result.risk = 40
              /\ sim_result.revenue = 85
              /\ sim_result.cost_efficiency = 40
              /\ sim_result.stability = 45

\* the regression fixture has been simulated
C4_Witness ==
    /\ ScenarioReturned
    /\ scenario_type = "growth"
    /\ base_scores.readiness = 50 /\ base_scores.risk = 20
    /\ sim_result.readiness = 60 /\ sim_result.risk = 40

FocusOf(tag) ==
    IF tag = "growth" THEN "Market Expansion"
    ELSE IF tag = "cost" THEN "Operational Efficiency" ELSE "Risk Mitigation"

ExplanationOf(tag) ==
    IF tag = "growth" THEN "Prioritizing growth will maximize revenue potential but significantly increase risk exposure and operational costs due to aggressive expansion."
    ELSE IF tag = "cost" THEN "Focusing on cost reduction will drastically improve margins and stability, but may slow down market capture and revenue growth."
    ELSE "A defensive strategy ensures maximum compliance and stability, protecting the business from external threats at the cost of rapid expansion."

C6_UnknownTagRejectedOrGrowth ==
    (call = "simulate_scenario" /\ scenario_type \notin KnownTags
        /\ {"readiness", "risk"} \subseteq DOMAIN base_scores) =>
        \/ sim_error = "InvalidScenario"
        \/ /\ sim_error = "none"
           /\ {"focus", "explanation"} \subseteq DOMAIN sim_result
           /\ sim_result = simulate_scenario(base_scores, "growth")

\* ------------------------------------------------------------------------
\* Properties of get_document_answer
\* ------------------------------------------------------------------------
AnswerDone == call = "get_document_answer"

\* C7: for every text of fewer than 10 characters (the empty text
\* included) and every question, also one made of symbols only, the fixed
\* "empty or too short" message is returned; no other check comes first.
C7_ShortTextMessage ==
    (AnswerDone /\ Len(raw_text) < 10) =>
        /\ qa_error = "none"
        /\ answer.message = "The document appears to be empty or too short to analyze."
        /\ answer.sentence = <<>>
        /\ ~vectorizer_called

\* a non-empty short text asked a question of symbols only
C7_Witness ==
    /\ AnswerDone
    /\ raw_text # <<>> /\ Len(raw_text) < 10
    /\ question = <<"?", "?", "?">>
    /\ answer.message = "The document appears to be empty or too short to analyze."

HasNoWordCharacter(q) == \A i \in DOMAIN q : ~IsWordChar(q[i])

\* C8: for a text of at least 10 characters, a question without any word
\* character gets the fixed "ask a question containing words" message, and
\* it is returned before the question is appended to the sentence list and
\* before the vectorizer is called.
C8_SymbolQuestionMessage ==
    (AnswerDone /\ Len(raw_text) >= 10 /\ HasNoWordCharacter(question)) =>
        /\ qa_error = "none"
        /\ answer.message = "Please ask a question containing words, not just symbols."
        /\ answer.sentence = <<>>
        /\ \A i \in DOMAIN sentences : sentences[i] # question
        /\ ~vectorizer_called

\* a document that splits into two sentences, asked "???"
C8_Witness ==
    /\ AnswerDone
    /\ Len(raw_text) >= 10
    /\ question = <<"?", "?", "?">>
    /\ Len(sentences) = 2
    /\ answer.message = "Please ask a question containing words, not just symbols."

\* the vectorizer built a vocabulary and there is a document sentence to
\* compare the question with
VectorizationSucceeded ==
    /\ AnswerDone
    /\ vectorizer_called
    /\ qa_error = "none"
    /\ answer.message # "I couldn't analyze the text structure. It might be too short or generic."
    /\ Len(sentences) >= 2

DocumentSentences == SubSeq(sentences, 1, Len(sentences) - 1)

MaxSimilarity == CHOOSE m \in Range(similarities) : \A x \in Range(similarities) : x <= m

FirstBest == CHOOSE i \in DOMAIN similarities :
                /\ similarities[i] = MaxSimilarity
                /\ \A j \in 1..(i - 1) : similarities[j] # MaxSimilarity

SharesToken(a, b) == Range(Tokenize(a)) \cap Range(Tokenize(b)) # {}

\* C9: when vectorization succeeds the answer is the document sentence of
\* maximal cosine similarity (the first one on ties) if and only if that
\* similarity exceeds 0.1, otherwise the fixed "could not find a direct
\* answer" fallback; a question sharing no token with any sentence gets the
\* fallback.
C9_BestSentenceOrFallback ==
    VectorizationSucceeded =>
        /\ DOMAIN similarities = DOMAIN DocumentSentences
        /\ IF MaxSimilarity > 100
           THEN /\ answer.message = ""
                /\ answer.sentence = DocumentSentences[FirstBest]
           ELSE /\ answer.message = "I couldn't find a direct answer in the document. Try asking with different keywords found in the file."
                /\ answer.sentence = <<>>
        /\ (\A i \in DOMAIN DocumentSentences :
                ~SharesToken(DocumentSentences[i], question))
              => answer.message = "I couldn't find a direct answer in the document. Try asking with different keywords found in the file."

\* the best sentence is the second of two, found by a question in other case
C9_Witness ==
    /\ VectorizationSucceeded
    /\ Len(sentences) = 3
    /\ similarities[1] = 0
    /\ similarities[2] > 100
    /\ question = <<"C", "o", "s", "t", "s", " ", "f", "e", "l", "l">>
    /\ answer.sentence = <<"c", "o", "s", "t", "s", " ", "f", "e", "l", "l", ".">>

\* ------------------------------------------------------------------------
\* Properties of extract_text
\* ------------------------------------------------------------------------
ExtractDone == call = "extract_text"

SupportedExtensions ==
    { <<".", "p", "d", "f">>, <<".", "d", "o", "c", "x">>, <<".", "d", "o", "c">>,
      <<".", "t", "x", "t">> }

LowerCased(s) == [i \in DOMAIN s |-> ToLower(s[i])]

\* every reader the format has was tried and failed
AllReadersFailed(f) ==
    LET e == LowerCased(f.ext)
    IN \/ e = <<".", "p", "d", "f">>
            /\ f.plumber_fail <= Len(f.plumber_pages)
            /\ f.pypdf_fail <= Len(f.pypdf_pages)
       \/ e \in {<<".", "d", "o", "c", "x">>, <<".", "d", "o", "c">>} /\ f.docx_fail
       \/ e = <<".", "t", "x", "t">> /\ f.read_fail

\* C10: extract_text never raises, and it returns the empty string for an
\* unsupported extension, for a path that does not exist and for a
\* supported file whose reader fails.
C10_ExtractNeverRaises ==
    ExtractDone =>
        /\ extract_error = "none"
        /\ (LowerCased(file.ext) \notin SupportedExtensions) => extracted = <<>>
        /\ ~file.exists => extracted = <<>>
        /\ (file.exists /\ AllReadersFailed(file)) => extracted = <<>>

\* a PDF on which the first reader failed after a page and the fallback failed too
C10_Witness ==
    /\ ExtractDone
    /\ file.exists
    /\ LowerCased(file.ext) = <<".", "p", "d", "f">>
    /\ file.plumber_fail = 2 /\ Len(file.plumber_pages) = 2
    /\ file.plumber_pages[1] # <<>>
    /\ file.pypdf_fail <= Len(file.pypdf_pages)
    /\ readers = <<"pdfplumber", "pypdf">>
    /\ extracted = <<>>
    /\ extract_error = "none"

\* ------------------------------------------------------------------------
\* Properties of extract_from_pdf and clean_text
\* ------------------------------------------------------------------------
PdfExtracted ==
    /\ ExtractDone
    /\ file.exists
    /\ LowerCased(file.ext) = <<".", "p", "d", "f">>

PrimaryFailed == file.plumber_fail <= Len(file.plumber_pages)
FallbackFailed == file.pypdf_fail <= Len(file.pypdf_pages)

\* the text of the pages the fallback reader yields, on its own
FallbackAlone == PagesText(file.pypdf_pages, 1, Len(file.pypdf_pages))

\* C11: PDF readers are tried primary first, then fallback; the fallback
\* is invoked only after the primary has failed; if the fallback succeeds
\* its cleaned text is returned; if both fail the result is the empty
\* string and no exception is raised.
C11_PdfFallbackOrder ==
    PdfExtracted =>
        /\ readers \in {<<"pdfplumber">>, <<"pdfplumber", "pypdf">>}
        /\ (readers = <<"pdfplumber", "pypdf">>) <=> PrimaryFailed
        /\ (PrimaryFailed /\ ~FallbackFailed) => extracted = clean_text(FallbackAlone)
        /\ (PrimaryFailed /\ FallbackFailed) =>
              (extracted = <<>> /\ extract_error = "none")

IsControl(c) == c \in {"U+0001", "\n", "\t"}
IsPrintableLatin(c) == ~IsControl(c) /\ c \notin {"U+00E9", "U+2003", "U+200B", "U+00A0"}

WhitespaceCollapsed(t) ==
    /\ \A i \in 1..(Len(t) - 1) : ~(IsSpace(t[i]) /\ IsSpace(t[i + 1]))
    /\ t # <<>> => (~IsSpace(t[1]) /\ ~IsSpace(t[Len(t)]))

\* C12: the text clean_text returns is whitespace-collapsed (no two
\* consecutive whitespace characters, none leading or trailing), has no
\* zero-width or no-break space, no control character and no character
\* outside the basic Latin printable range.
C12_CleanTextNormalised ==
    (ExtractDone /\ readers # <<>> /\ ~AllReadersFailed(file)) =>
        /\ WhitespaceCollapsed(extracted)
        /\ \A i \in DOMAIN extracted :
              /\ extracted[i] \notin {"U+200B", "U+00A0"}
              /\ ~IsControl(extracted[i])
              /\ IsPrintableLatin(extracted[i])

\* ------------------------------------------------------------------------
\* nlp_processor.extract_key_phrases
\* ------------------------------------------------------------------------
\* stopwords.words('english'), the entries that occur in the inputs
NltkStopWords == { <<"t", "h", "e">>, <<"o", "f">>, <<"i", "s">>, <<"a">> }

\* str.lower
Lower(w) == [i \in DOMAIN w |-> ToLower(w[i])]

\* str.isalnum
IsAlnum(w) ==
    /\ w # <<>>
    /\ \A i \in DOMAIN w : IsLower(w[i]) \/ IsUpper(w[i]) \/ w[i] \in Digits

\* [w.lower() for w in tokens if w.isalnum() and w.lower() not in stop_words]
RECURSIVE KeyWords(_)
KeyWords(tokens) ==
    IF tokens = <<>> THEN <<>>
    ELSE (IF IsAlnum(tokens[1]) /\ Lower(tokens[1]) \notin NltkStopWords
          THEN <<Lower(tokens[1])>> ELSE <<>>) \o KeyWords(Tail(tokens))

\* nltk.bigrams(words): the pairs of neighbours
Bigrams(words) == [i \in 1..(Len(words) - 1) |-> <<words[i], words[i + 1]>>]

\* Counter(items)[x]
Count(items, x) == Cardinality({i \in DOMAIN items : items[i] = x})

\* the keys of Counter(items) in insertion order
RECURSIVE CounterKeys(_, _)
CounterKeys(items, seen) ==
    IF items = <<>> THEN <<>>
    ELSE IF items[1] \in seen THEN CounterKeys(Tail(items), seen)
    ELSE <<items[1]>> \o CounterKeys(Tail(items), seen \cup {items[1]})

\* the first key of keys with the largest count
FirstLargest(items, keys) ==
    keys[CHOOSE i \in DOMAIN keys :
            /\ \A j \in DOMAIN keys : Count(items, keys[j]) <= Count(items, keys[i])
            /\ \A j \in 1..(i - 1) : Count(items, keys[j]) < Count(items, keys[i])]

\* the keys as they come, without ordering them by count
RECURSIVE MostCommonFrom_unsorted(_, _, _)
MostCommonFrom_unsorted(items, keys, n) ==
    IF n <= 0 \/ keys = <<>> THEN <<>>
    ELSE <<keys[1]>> \o MostCommonFrom_unsorted(items, Tail(keys), n - 1)

\* heapq.nlargest(n, counter.items(), key=count): by descending count, keys
\* of equal count in insertion order
RECURSIVE MostCommonFrom(_, _, _)
MostCommonFrom(items, keys, n) ==
    IF n <= 0 \/ keys = <<>> THEN <<>>
    ELSE LET k == FirstLargest(items, keys)
         IN <<k>> \o MostCommonFrom(items, SelectSeq(keys, LAMBDA x : x # k), n - 1)

\* Counter(items).most_common(n), the keys only
MostCommon(items, n) == MostCommonFrom(items, CounterKeys(items, {}), n)

\* " ".join(bg)
JoinBigram(bg) == bg[1] \o <<" ">> \o bg[2]

extract_key_phrases(tokens, n) ==
    LET words == KeyWords(tokens)
        most_common == MostCommon(words, n \div 2)
        common_bigrams == MostCommon(Bigrams(words), n \div 2)
    IN most_common \o [i \in DOMAIN common_bigrams |-> JoinBigram(common_bigrams[i])]

\* tokens word_tokenize yields: words in either case, a stop word, a full stop
KeyTokens == { <<"a", "b">>, <<"A", "b">>, <<"c", "d">>, <<"e", "4">>,
               <<"t", "h", "e">>, <<".">> }

KeyTokenLists == UNION {[1..n -> KeyTokens] : n \in 0..MaxTokens}

ExtractKeyPhrases ==
    /\ call = "none"
    /\ \E tokens \in KeyTokenLists, n \in 0..MaxTopN :
         /\ call' = "extract_key_phrases"
         /\ kp_tokens' = tokens
         /\ top_n' = n
         /\ key_phrases' = extract_key_phrases(tokens, n)
         /\ UNCHANGED <<scoreVars, simVars, qaVars, exVars, sumVars, diVars, swVars,
                        synVars, kpiVars, planVars, upVars, prioVars, llmVars, cacheVars,
                        webVars>>

\* ------------------------------------------------------------------------
\* Properties of extract_key_phrases
\* ------------------------------------------------------------------------
KeyPhrasesDone == call = "extract_key_phrases"

\* result lists the n most frequent distinct members of items (all of them
\* when there are fewer), the more frequent first, none twice
TopByFrequency(result, items, n) ==
    /\ Len(result) = Min(n, Cardinality(Range(items)))
    /\ \A i \in DOMAIN result : result[i] \in Range(items)
    /\ \A i, j \in DOMAIN result :
          i < j => /\ result[i] # result[j]
                   /\ Count(items, result[i]) >= Count(items, result[j])
    /\ \A x \in Range(items) \ Range(result) :
          \A i \in DOMAIN result : Count(items, x) <= Count(items, result[i])

\* key_phrases is the nsingle most frequent terms followed by the nbigram
\* most frequent bigrams, without a repeated entry
KeyPhrasesAre(nsingle, nbigram) ==
    LET words == KeyWords(kp_tokens)
        pairs == [i \in 1..(Len(words) - 1) |-> words[i] \o <<" ">> \o words[i + 1]]
        ns == Min(Min(nsingle, Cardinality(Range(words))), Len(key_phrases))
    IN /\ TopByFrequency(SubSeq(key_phrases, 1, ns), words, nsingle)
       /\ TopByFrequency(SubSeq(key_phrases, ns + 1, Len(key_phrases)), pairs, nbigram)
       /\ \A i, j \in DOMAIN key_phrases : i < j => key_phrases[i] # key_phrases[j]

\* C13 as stated: extract_key_phrases(text, top_n) returns the top_n most
\* frequent non-stopword single terms (all of them when fewer exist)
\* followed by the floor(top_n/2) most frequent bigrams, single terms
\* first, each list in descending frequency, no entry repeated.
C13_TopNSingleTerms ==
    KeyPhrasesDone => KeyPhrasesAre(top_n, top_n \div 2)

\* C13, amended: extract_key_phrases(text, top_n) returns the
\* floor(top_n/2) most frequent non-stopword single terms (all of them
\* when fewer exist) followed by the floor(top_n/2) most frequent bigrams,
\* single terms first, each list in descending frequency, no entry
\* repeated.
C13_HalfSingleTermsHalfBigrams ==
    KeyPhrasesDone => KeyPhrasesAre(top_n \div 2, top_n \div 2)

\* three distinct terms, one of them twice and in two cases, cut to two
\* terms and two bigrams by top_n = 4
C13_Witness ==
    /\ KeyPhrasesDone
    /\ kp_tokens = << <<"A", "b">>, <<"c", "d">>, <<"a", "b">>, <<"e", "4">> >>
    /\ top_n = 4
    /\ key_phrases = << <<"a", "b">>, <<"c", "d">>,
                        <<"a", "b", " ", "c", "d">>, <<"c", "d", " ", "a", "b">> >>

\* ------------------------------------------------------------------------
\* nlp_processor.generate_summary
\* ------------------------------------------------------------------------
\* A text is given as its sentences, a sentence as its words; the words are
\* separated by one space and a full stop ends the sentence; clean_text
\* leaves such a text as it is.
\* sep.join(seqs[lo..hi]), halving the range
RECURSIVE JoinRange(_, _, _, _)
JoinRange(seqs, sep, lo, hi) ==
    IF lo > hi THEN <<>>
    ELSE IF lo = hi THEN seqs[lo]
    ELSE LET mid == (lo + hi) \div 2
         IN JoinRange(seqs, sep, lo, mid) \o sep \o JoinRange(seqs, sep, mid + 1, hi)

Join(seqs, sep) == JoinRange(seqs, sep, 1, Len(seqs))

SentenceText(ws) == Join(ws, <<" ">>) \o <<".">>

DocumentText(doc) == Join([i \in DOMAIN doc |-> SentenceText(doc[i])], <<" ">>)

\* sent_tokenize(clean_txt): the sentences of the text
SentTokenize(doc) == [i \in DOMAIN doc |-> SentenceText(doc[i])]

\* word_tokenize(sent.lower()): the words and the full stop, a token of its own
WordTokenize(ws) == [i \in DOMAIN ws |-> Lower(ws[i])] \o << <<".">> >>

RECURSIVE TextTokens(_)
TextTokens(doc) ==
    IF doc = <<>> THEN <<>> ELSE WordTokenize(doc[1]) \o TextTokens(Tail(doc))

\* the words counted in word_frequencies
FrequentWords(doc) ==
    SelectSeq(TextTokens(doc), LAMBDA w : w \notin NltkStopWords /\ IsAlnum(w))

\* len(sent.split(' ')) < 30
WordLimit == 30
UnderWordLimit(ws) == Len(ws) < WordLimit

\* what one pass of the inner loop over a sentence adds to its score, as a
\* multiple of 1 / max_freq
RECURSIVE ScoreOfWords(_, _, _)
ScoreOfWords(words, tokens, freq) ==
    IF words = {} THEN 0
    ELSE LET w == CHOOSE x \in words : TRUE
         IN Count(tokens, w) * Count(freq, w) + ScoreOfWords(words \ {w}, tokens, freq)

ScoreOfTokens(tokens, freq) == ScoreOfWords(Range(tokens) \cap Range(freq), tokens, freq)

\* sentence_scores after the loop: the sentences that got an entry, in the
\* order of their first entry, with the score of all their occurrences
RECURSIVE ScoredFrom(_, _, _, _)
ScoredFrom(doc, i, freq, seen) ==
    IF i > Len(doc) THEN <<>>
    ELSE LET sent == SentenceText(doc[i])
             gets_entry ==
                 /\ UnderWordLimit(doc[i])
                 /\ \E k \in DOMAIN doc[i] : Lower(doc[i][k]) \in Range(freq)
         IN IF gets_entry /\ sent \notin seen
            THEN << [sentence |-> sent,
                     score |-> ScoreOfTokens(WordTokenize(doc[i]), freq)
                                 * Cardinality({j \in DOMAIN doc : doc[j] = doc[i]})] >>
                    \o ScoredFrom(doc, i + 1, freq, seen \cup {sent})
            ELSE ScoredFrom(doc, i + 1, freq, seen)

SentenceScores(doc) ==
    CHOOSE entries \in {ScoredFrom(doc, 1, freq, {}) : freq \in {FrequentWords(doc)}} : TRUE

\* heapq.nlargest(n, sentence_scores, key=sentence_scores.get): the first n
\* of the entries by descending score, equal scores in insertion order
RECURSIVE NLargest(_, _)
NLargest(n, entries) ==
    IF n <= 0 \/ entries = <<>> THEN <<>>
    ELSE LET b == CHOOSE i \in DOMAIN entries :
                    /\ \A j \in DOMAIN entries : entries[j].score <= entries[i].score
                    /\ \A j \in 1..(i - 1) : entries[j].score < entries[i].score
         IN <<entries[b].sentence>>
                \o NLargest(n - 1, [k \in 1..(Len(entries) - 1) |->
                                        IF k < b THEN entries[k] ELSE entries[k + 1]])

\* text[:500] + "..."
TruncateAt == 500
Truncated(text) == SubSeq(text, 1, Min(TruncateAt, Len(text))) \o <<".", ".", ".">>

generate_summary(doc, n) ==
    IF Len(SentTokenize(doc)) <= n
    THEN [summary |-> Join(SentTokenize(doc), <<" ">>), scores |-> <<>>]
    ELSE IF FrequentWords(doc) = <<>>
    THEN [summary |-> Truncated(DocumentText(doc)), scores |-> <<>>]
    ELSE CHOOSE r \in {[summary |-> Join(NLargest(n, entries), <<" ">>),
                         scores |-> entries] : entries \in {SentenceScores(doc)}} : TRUE

\* n copies of the word w
Pad(n, w) == [i \in 1..n |-> w]

\* sentences of two content words in both cases and two stop words: short
\* ones, one of 29 and two of 30 words, and one of stop words only that is
\* longer than 500 characters
SummarySentences == {
    << <<"a", "b">>, <<"c", "d">> >>,
    << <<"c", "d">> >>,
    << <<"o", "f">>, <<"a">> >>,
    << <<"A", "b">>, <<"o", "f">> >>,
    << <<"a", "b">> >> \o Pad(28, <<"a">>),
    << <<"a", "b">> >> \o Pad(29, <<"a">>),
    << <<"c", "d">>, <<"a", "b">> >> \o Pad(28, <<"o", "f">>),
    Pad(170, <<"o", "f">>) }

Documents == UNION {[1..n -> SummarySentences] : n \in 0..MaxDocSentences}

GenerateSummary ==
    /\ call = "none"
    /\ \E doc \in Documents, n \in 1..MaxNumSentences :
         LET r == generate_summary(doc, n)
         IN /\ call' = "generate_summary"
            /\ sum_doc' = doc
            /\ num_sentences' = n
            /\ sentence_scores' = r.scores
            /\ summary' = r.summary
            /\ UNCHANGED <<scoreVars, simVars, qaVars, exVars, kpVars, diVars, swVars,
                           synVars, kpiVars, planVars, upVars, prioVars, llmVars,
                           cacheVars, webVars>>

\* ------------------------------------------------------------------------
\* Properties of generate_summary
\* ------------------------------------------------------------------------
SummaryDone == call = "generate_summary"

NoSentenceScored == \A i \in DOMAIN sentence_scores : sentence_scores[i].score <= 0

\* s is the first 500 characters of text followed by the marker "..."
IsTruncationOf(s, text) ==
    LET n == IF Len(text) < 500 THEN Len(text) ELSE 500
    IN /\ Len(s) = n + 3
       /\ \A i \in 1..n : s[i] = text[i]
       /\ \A i \in (n + 1)..(n + 3) : s[i] = "."

\* C14: generate_summary falls back to the first 500 characters of the raw
\* text followed by a truncation marker whenever no sentence obtains a
\* score above 0, also when the text has more than num_sentences sentences
\* and each of them has 30 or more space-separated words; it never returns
\* an empty summary for a non-empty text.
C14_SummaryFallback ==
    SummaryDone =>
        /\ (Len(sum_doc) > num_sentences /\ NoSentenceScored)
              => IsTruncationOf(summary, DocumentText(sum_doc))
        /\ DocumentText(sum_doc) # <<>> => summary # <<>>

\* ------------------------------------------------------------------------
\* nlp_processor.detect_business_intent
\* ------------------------------------------------------------------------
\* r'(growth|expand|market share|scale|opportunity)'
ExpansionWords ==
    << <<"g", "r", "o", "w", "t", "h">>,
       <<"e", "x", "p", "a", "n", "d">>,
       <<"m", "a", "r", "k", "e", "t", " ", "s", "h", "a", "r", "e">>,
       <<"s", "c", "a", "l", "e">>,
       <<"o", "p", "p", "o", "r", "t", "u", "n", "i", "t", "y">> >>

\* r'(cost|saving|efficiency|budget|cut|reduce)'
CostWords ==
    << <<"c", "o", "s", "t">>,
       <<"s", "a", "v", "i", "n", "g">>,
       <<"e", "f", "f", "i", "c", "i", "e", "n", "c", "y">>,
       <<"b", "u", "d", "g", "e", "t">>,
       <<"c", "u", "t">>,
       <<"r", "e", "d", "u", "c", "e">> >>

\* r'(risk|compliance|regulation|legal|audit|threat)'
RiskWords ==
    << <<"r", "i", "s", "k">>,
       <<"c", "o", "m", "p", "l", "i", "a", "n", "c", "e">>,
       <<"r", "e", "g", "u", "l", "a", "t", "i", "o", "n">>,
       <<"l", "e", "g", "a", "l">>,
       <<"a", "u", "d", "i", "t">>,
       <<"t", "h", "r", "e", "a", "t">> >>

\* r'(digital|ai|tech|cloud|automation|data)'
DigitalWords ==
    << <<"d", "i", "g", "i", "t", "a", "l">>,
       <<"a", "i">>,
       <<"t", "e", "c", "h">>,
       <<"c", "l", "o", "u", "d">>,
       <<"a", "u", "t", "o", "m", "a", "t", "i", "o", "n">>,
       <<"d", "a", "t", "a">> >>

\* the pattern word matches text at position i
MatchesAt(text, i, word) ==
    /\ i + Len(word) - 1 <= Len(text)
    /\ SubSeq(text, i, i + Len(word) - 1) = word

\* the length of the first alternative that matches at position i, 0 if
\* none does
RECURSIVE MatchLength(_, _, _, _)
MatchLength(text, i, alternatives, k) ==
    IF k > Len(alternatives) THEN 0
    ELSE IF MatchesAt(text, i, alternatives[k]) THEN Len(alternatives[k])
    ELSE MatchLength(text, i, alternatives, k + 1)

\* len(re.findall(pattern, text)): the matches do not overlap, the search
\* goes on behind a match
RECURSIVE FindAllFrom(_, _, _)
FindAllFrom(text, i, alternatives) ==
    IF i > Len(text) THEN 0
    ELSE LET n == MatchLength(text, i, alternatives, 1)
         IN IF n > 0 THEN 1 + FindAllFrom(text, i + n, alternatives)
            ELSE FindAllFrom(text, i + 1, alternatives)

\* the keys of scores, in the order of the dict literal
IntentCategories ==
    <<"market_expansion", "cost_reduction", "risk_compliance", "digital_transformation">>

IntentScores(text) ==
    LET low == Lower(text)
    IN [market_expansion |-> FindAllFrom(low, 1, ExpansionWords),
        cost_reduction |-> FindAllFrom(low, 1, CostWords),
        risk_compliance |-> FindAllFrom(low, 1, RiskWords),
        digital_transformation |-> FindAllFrom(low, 1, DigitalWords)]

\* an order that puts the last of the keys of equal score first
LargestIndex_last(keys, counts) ==
    CHOOSE i \in DOMAIN keys :
        /\ \A j \in DOMAIN keys : counts[keys[j]] <= counts[keys[i]]
        /\ \A j \in (i + 1)..Len(keys) : counts[keys[j]] < counts[keys[i]]

\* the first of the keys with the largest score
LargestIndex(keys, counts) ==
    CHOOSE i \in DOMAIN keys :
        /\ \A j \in DOMAIN keys : counts[keys[j]] <= counts[keys[i]]
        /\ \A j \in 1..(i - 1) : counts[keys[j]] < counts[keys[i]]

\* sorted(scores.items(), key=lambda x: x[1], reverse=True): the sort is
\* stable, keys of equal score keep the order of the dict
RECURSIVE SortedIntents(_, _)
SortedIntents(keys, counts) ==
    IF keys = <<>> THEN <<>>
    ELSE LET b == LargestIndex(keys, counts)
         IN <<keys[b]>>
              \o SortedIntents([k \in 1..(Len(keys) - 1) |->
                                    IF k < b THEN keys[k] ELSE keys[k + 1]], counts)

\* [k for k, v in sorted_intents[:2]]
detect_business_intent(text) ==
    CHOOSE top \in {SubSeq(SortedIntents(IntentCategories, counts), 1, 2) :
                        counts \in {IntentScores(text)}} : TRUE

\* phrases with and without a match, in both cases; "maintain" holds "ai"
IntentPhrases ==
    { <<"g", "r", "o", "w", "t", "h">>,
      <<"S", "c", "a", "l", "e">>,
      <<"c", "o", "s", "t">>,
      <<"r", "i", "s", "k">>,
      <<"a", "u", "d", "i", "t", " ", "r", "i", "s", "k">>,
      <<"A", "I">>,
      <<"m", "a", "i", "n", "t", "a", "i", "n">>,
      <<"p", "l", "a", "n">> }

IntentTexts ==
    {Join(ps, <<" ">>) : ps \in UNION {[1..n -> IntentPhrases] : n \in 0..MaxIntentWords}}

DetectBusinessIntent ==
    /\ call = "none"
    /\ \E text \in IntentTexts :
         /\ call' = "detect_business_intent"
         /\ intent_text' = text
         /\ intent_counts' = IntentScores(text)
         /\ detected' = detect_business_intent(text)
         /\ UNCHANGED <<scoreVars, simVars, qaVars, exVars, kpVars, sumVars, swVars,
                        synVars, kpiVars, planVars, upVars, prioVars, llmVars, cacheVars,
                        webVars>>

\* ------------------------------------------------------------------------
\* Properties of detect_business_intent
\* ------------------------------------------------------------------------
IntentDetected == call = "detect_business_intent"

DeclarationIndex(c) == CHOOSE i \in DOMAIN IntentCategories : IntentCategories[i] = c

\* c ranks before d: more matches, or as many and declared earlier
RanksBefore(c, d) ==
    \/ intent_counts[c] > intent_counts[d]
    \/ /\ intent_counts[c] = intent_counts[d]
       /\ DeclarationIndex(c) < DeclarationIndex(d)

\* C15: detect_business_intent returns the two categories with the highest
\* match counts among market_expansion, cost_reduction, risk_compliance and
\* digital_transformation, by descending count and, for equal counts, in
\* declaration order; a higher count ranks first whatever the declaration
\* order is, and no category is returned twice.
C15_TopTwoIntents ==
    IntentDetected =>
        /\ Len(detected) = 2
        /\ \A i \in 1..2 : detected[i] \in Range(IntentCategories)
        /\ detected[1] # detected[2]
        /\ RanksBefore(detected[1], detected[2])
        /\ \A c \in Range(IntentCategories) \ {detected[1], detected[2]} :
              RanksBefore(detected[2], c)

\* the category declared third leads with two matches, and of the two
\* categories with one match the one declared earlier follows
C15_Witness ==
    /\ IntentDetected
    /\ intent_counts["risk_compliance"] = 2
    /\ intent_counts["cost_reduction"] = 1
    /\ intent_counts["digital_transformation"] = 1
    /\ intent_counts["market_expansion"] = 0
    /\ detected = <<"risk_compliance", "cost_reduction">>

\* ------------------------------------------------------------------------
\* nlp_processor.generate_swot
\* ------------------------------------------------------------------------
\* word in text
Contains(text, word) == \E i \in 1..Len(text) : MatchesAt(text, i, word)

\* swot[key].append(item) if the test holds
AppendIf(test, item) == IF test THEN <<item>> ELSE <<>>

\* a fallback that keeps the first default only
OrDefault_first(items, defaults) == IF items = <<>> THEN <<defaults[1]>> ELSE items

\* if not swot[key]: swot[key] = defaults
OrDefault(items, defaults) == IF items = <<>> THEN defaults ELSE items

DefaultStrengths == <<"Operational Resilience", "Experienced Leadership">>
DefaultWeaknesses == <<"Resource Constraints", "Legacy Systems">>
DefaultOpportunities == <<"Digital Transformation", "New Product Lines">>
DefaultThreats == <<"Market Volatility", "Cybersecurity Threats">>

\* one of the words is in text
HasAny(text, words) == \E w \in words : Contains(text, w)

\* the dict built from the lowercased text
SwotOf(low) ==
    [strengths |->
        OrDefault(
            AppendIf(HasAny(low, {<<"b", "r", "a", "n", "d">>, <<"l", "e", "a", "d", "e", "r">>}),
                     "Strong market brand presence")
            \o AppendIf(HasAny(low, {<<"c", "a", "s", "h">>, <<"p", "r", "o", "f", "i", "t">>}),
                     "Solid financial footing")
            \o AppendIf(HasAny(low, {<<"t", "e", "c", "h", "n", "o", "l", "o", "g", "y">>}),
                     "Advanced technology stack"),
            DefaultStrengths),
     weaknesses |->
        OrDefault(
            AppendIf(HasAny(low, {<<"d", "e", "b", "t">>, <<"c", "o", "s", "t">>}),
                     "High operational costs")
            \o AppendIf(HasAny(low, {<<"g", "a", "p">>, <<"s", "l", "o", "w">>}),
                     "Slow time-to-market"),
            DefaultWeaknesses),
     opportunities |->
        OrDefault(
            AppendIf(HasAny(low, {<<"e", "m", "e", "r", "g", "i", "n", "g">>, <<"g", "l", "o", "b", "a", "l">>}),
                     "Expansion into emerging markets")
            \o AppendIf(HasAny(low, {<<"a", "c", "q", "u", "i", "s", "i", "t", "i", "o", "n">>, <<"p", "a", "r", "t", "n", "e", "r">>}),
                     "Strategic partnerships"),
            DefaultOpportunities),
     threats |->
        OrDefault(
            AppendIf(HasAny(low, {<<"c", "o", "m", "p", "e", "t", "i", "t", "o", "r">>, <<"r", "i", "v", "a", "l">>}),
                     "Intense competitive pressure")
            \o AppendIf(HasAny(low, {<<"r", "e", "g", "u", "l", "a", "t", "i", "o", "n">>, <<"l", "a", "w">>}),
                     "Regulatory compliance risks"),
            DefaultThreats)]

\* text = text.lower() is computed once
generate_swot(text) == CHOOSE r \in {SwotOf(low) : low \in {Lower(text)}} : TRUE

\* phrases with a keyword of each category, in both cases, and without one;
\* "lawyer" holds "law"
SwotPhrases ==
    { <<"B", "r", "a", "n", "d">>,
      <<"p", "r", "o", "f", "i", "t">>,
      <<"t", "e", "c", "h", "n", "o", "l", "o", "g", "y">>,
      <<"c", "o", "s", "t">>,
      <<"s", "l", "o", "w">>,
      <<"g", "l", "o", "b", "a", "l">>,
      <<"p", "a", "r", "t", "n", "e", "r">>,
      <<"r", "i", "v", "a", "l">>,
      <<"l", "a", "w", "y", "e", "r">>,
      <<"p", "l", "a", "n">> }

SwotTexts ==
    {Join(ps, <<" ">>) : ps \in UNION {[1..n -> SwotPhrases] : n \in 0..MaxSwotWords}}

GenerateSwot ==
    /\ call = "none"
    /\ \E text \in SwotTexts :
         /\ call' = "generate_swot"
         /\ swot_text' = text
         /\ swot_result' = generate_swot(text)
         /\ UNCHANGED <<scoreVars, simVars, qaVars, exVars, kpVars, sumVars, diVars,
                        synVars, kpiVars, planVars, upVars, prioVars, llmVars, cacheVars,
                        webVars>>

\* ------------------------------------------------------------------------
\* Properties of generate_swot
\* ------------------------------------------------------------------------
SwotDone == call = "generate_swot"

SwotCategories == {"strengths", "weaknesses", "opportunities", "threats"}

CategoryKeywords(c) ==
    IF c = "strengths" THEN {<<"b", "r", "a", "n", "d">>, <<"l", "e", "a", "d", "e", "r">>, <<"c", "a", "s", "h">>, <<"p", "r", "o", "f", "i", "t">>, <<"t", "e", "c", "h", "n", "o", "l", "o", "g", "y">>}
    ELSE IF c = "weaknesses" THEN {<<"d", "e", "b", "t">>, <<"c", "o", "s", "t">>, <<"g", "a", "p">>, <<"s", "l", "o", "w">>}
    ELSE IF c = "opportunities" THEN {<<"e", "m", "e", "r", "g", "i", "n", "g">>, <<"g", "l", "o", "b", "a", "l">>, <<"a", "c", "q", "u", "i", "s", "i", "t", "i", "o", "n">>, <<"p", "a", "r", "t", "n", "e", "r">>}
    ELSE {<<"c", "o", "m", "p", "e", "t", "i", "t", "o", "r">>, <<"r", "i", "v", "a", "l">>, <<"r", "e", "g", "u", "l", "a", "t", "i", "o", "n">>, <<"l", "a", "w">>}

NoKeywordMatched(c) ==
    \A w \in CategoryKeywords(c) :
        \A i \in 1..Len(swot_text) :
            LowerCased(SubSeq(swot_text, i, Min(i + Len(w) - 1, Len(swot_text)))) # w

DefaultsOf(c) ==
    IF c = "strengths" THEN <<"Operational Resilience", "Experienced Leadership">>
    ELSE IF c = "weaknesses" THEN <<"Resource Constraints", "Legacy Systems">>
    ELSE IF c = "opportunities" THEN <<"Digital Transformation", "New Product Lines">>
    ELSE <<"Market Volatility", "Cybersecurity Threats">>

\* C16 as stated: generate_swot returns all four categories non-empty for
\* every text, and a category for which no keyword matched contains
\* exactly one default sentence.
C16_OneDefaultSentence ==
    SwotDone =>
        /\ DOMAIN swot_result = SwotCategories
        /\ \A c \in SwotCategories :
              /\ swot_result[c] # <<>>
              /\ NoKeywordMatched(c) => Len(swot_result[c]) = 1

\* C16, amended: generate_swot returns all four categories non-empty for
\* every text, and a category for which no keyword matched contains
\* exactly the two fixed default entries of that category.
C16_TwoDefaultEntries ==
    SwotDone =>
        /\ DOMAIN swot_result = SwotCategories
        /\ \A c \in SwotCategories :
              /\ swot_result[c] # <<>>
              /\ NoKeywordMatched(c) => swot_result[c] = DefaultsOf(c)

\* a text with a strength and a threat keyword and no other
C16_Witness ==
    /\ SwotDone
    /\ ~NoKeywordMatched("strengths") /\ ~NoKeywordMatched("threats")
    /\ NoKeywordMatched("weaknesses") /\ NoKeywordMatched("opportunities")
    /\ swot_result["strengths"] = <<"Strong market brand presence">>
    /\ swot_result["threats"] = <<"Regulatory compliance risks">>
    /\ swot_result["weaknesses"] = <<"Resource Constraints", "Legacy Systems">>
    /\ swot_result["opportunities"] = <<"Digital Transformation", "New Product Lines">>

\* ------------------------------------------------------------------------
\* strategy_generator.generate_initial_strategy
\* ------------------------------------------------------------------------
\* "Focus on scalable growth initiatives"
GrowthStrategy ==
    <<"F", "o", "c", "u", "s", " ", "o", "n", " ", "s", "c", "a", "l", "a", "b", "l",
      "e", " ", "g", "r", "o", "w", "t", "h", " ", "i", "n", "i", "t", "i", "a", "t",
      "i", "v", "e", "s">>

\* "Optimize operational costs"
CostStrategy ==
    <<"O", "p", "t", "i", "m", "i", "z", "e", " ", "o", "p", "e", "r", "a", "t", "i",
      "o", "n", "a", "l", " ", "c", "o", "s", "t", "s">>

\* "Expand into new markets"
ExpansionStrategy ==
    <<"E", "x", "p", "a", "n", "d", " ", "i", "n", "t", "o", " ", "n", "e", "w", " ",
      "m", "a", "r", "k", "e", "t", "s">>

\* "Adopt digital tools and automation"
DigitalStrategy ==
    <<"A", "d", "o", "p", "t", " ", "d", "i", "g", "i", "t", "a", "l", " ", "t", "o",
      "o", "l", "s", " ", "a", "n", "d", " ", "a", "u", "t", "o", "m", "a", "t", "i",
      "o", "n">>

\* "Strengthen compliance and risk controls"
RiskStrategy ==
    <<"S", "t", "r", "e", "n", "g", "t", "h", "e", "n", " ", "c", "o", "m", "p", "l",
      "i", "a", "n", "c", "e", " ", "a", "n", "d", " ", "r", "i", "s", "k", " ", "c",
      "o", "n", "t", "r", "o", "l", "s">>

\* "Maintain stability and improve efficiency"
FallbackStrategy ==
    <<"M", "a", "i", "n", "t", "a", "i", "n", " ", "s", "t", "a", "b", "i", "l", "i",
      "t", "y", " ", "a", "n", "d", " ", "i", "m", "p", "r", "o", "v", "e", " ", "e",
      "f", "f", "i", "c", "i", "e", "n", "c", "y">>

\* x in intents
In(x, list) == x \in Range(list)

\* the strategies in the order of the intents argument
RECURSIVE StrategiesInArgumentOrder(_, _)
StrategiesInArgumentOrder(ints, seen) ==
    IF ints = <<>> THEN <<>>
    ELSE LET i == ints[1]
             s == IF i = "growth" THEN <<GrowthStrategy>>
                  ELSE IF i = "cost_reduction" THEN <<CostStrategy>>
                  ELSE IF i = "market_expansion" THEN <<ExpansionStrategy>>
                  ELSE IF i = "digital_transformation" THEN <<DigitalStrategy>>
                  ELSE IF i = "risk_management" THEN <<RiskStrategy>>
                  ELSE <<>>
         IN (IF i \in seen THEN <<>> ELSE s)
                \o StrategiesInArgumentOrder(Tail(ints), seen \cup {i})

generate_initial_strategy_argorder(ints, sw) ==
    OrDefault(StrategiesInArgumentOrder(ints, {}), <<FallbackStrategy>>)

\* the if statements in their order, then the fallback; swot is not read
generate_initial_strategy(ints, sw) ==
    OrDefault(AppendIf(In("growth", ints), GrowthStrategy)
                \o AppendIf(In("cost_reduction", ints), CostStrategy)
                \o AppendIf(In("market_expansion", ints), ExpansionStrategy)
                \o AppendIf(In("digital_transformation", ints), DigitalStrategy)
                \o AppendIf(In("risk_management", ints), RiskStrategy),
              <<FallbackStrategy>>)

\* the labels of the prompt, the classifier's risk_compliance and the
\* fallback intent of generate_full_strategy_profile
IntentLabels == {"growth", "cost_reduction", "market_expansion", "digital_transformation",
                 "risk_management", "risk_compliance", "General Strategy"}

IntentLists == UNION {[1..n -> IntentLabels] : n \in 0..MaxIntents}

\* swot dicts as the upload handler passes them: the fallback of
\* generate_full_strategy_profile and the handler's default
GivenSwots ==
    { [strengths |-> <<"Stable operations">>, weaknesses |-> <<"Needs optimization">>,
       opportunities |-> <<"Market growth">>, threats |-> <<"Competition">>],
      [strengths |-> <<>>, weaknesses |-> <<>>, opportunities |-> <<>>, threats |-> <<>>] }

GenerateInitialStrategy ==
    /\ call = "none"
    /\ \E ints \in IntentLists, sw \in GivenSwots :
         /\ call' = "generate_initial_strategy"
         /\ syn_intents' = ints
         /\ syn_swot' = sw
         /\ strategies' = generate_initial_strategy(ints, sw)
         /\ UNCHANGED <<scoreVars, simVars, qaVars, exVars, kpVars, sumVars, diVars,
                        swVars, kpiVars, planVars, upVars, prioVars, llmVars, cacheVars,
                        webVars>>

\* ------------------------------------------------------------------------
\* Properties of generate_initial_strategy
\* ------------------------------------------------------------------------
StrategyDone == call = "generate_initial_strategy"

RecognizedIntents ==
    <<"growth", "cost_reduction", "market_expansion", "digital_transformation",
      "risk_management">>

StrategyOf(i) ==
    IF i = "growth" THEN GrowthStrategy
    ELSE IF i = "cost_reduction" THEN CostStrategy
    ELSE IF i = "market_expansion" THEN ExpansionStrategy
    ELSE IF i = "digital_transformation" THEN DigitalStrategy
    ELSE RiskStrategy

\* the recognized intents of the argument, each once, in the order of list
RecognizedIn(list) == SelectSeq(list, LAMBDA i : i \in Range(syn_intents))

\* the recognized intents of the argument, each once, as they first appear
FirstAppearances ==
    LET idx == {k \in DOMAIN syn_intents :
                    /\ syn_intents[k] \in Range(RecognizedIntents)
                    /\ \A j \in 1..(k - 1) : syn_intents[j] # syn_intents[k]}
    IN [n \in 1..Cardinality(idx) |->
            syn_intents[CHOOSE k \in idx : Cardinality({j \in idx : j <= k}) = n]]

\* the result is one strategy per intent of order, or the one fallback
StrategiesFollow(order) ==
    IF order = <<>> THEN strategies = <<FallbackStrategy>>
    ELSE /\ Len(strategies) = Len(order)
         /\ \A k \in DOMAIN order : strategies[k] = StrategyOf(order[k])

\* C18 as stated: generate_initial_strategy returns one fixed strategy per
\* recognized intent, in the order in which the intents appear in the
\* intents argument, and exactly one fallback strategy when no intent is
\* recognized; the result is never empty and does not depend on swot.
C18_StrategiesInArgumentOrder ==
    StrategyDone => (StrategiesFollow(FirstAppearances) /\ strategies # <<>>)

\* C18, amended: generate_initial_strategy returns one fixed strategy per
\* recognized intent, in the fixed order growth, cost_reduction,
\* market_expansion, digital_transformation, risk_management whatever the
\* order of the intents argument is, and exactly one fallback strategy
\* when no intent is recognized; the result is never empty and does not
\* depend on swot.
C18_StrategiesInFixedOrder ==
    StrategyDone => (StrategiesFollow(RecognizedIn(RecognizedIntents)) /\ strategies # <<>>)

\* market_expansion is given before cost_reduction, next to a label
\* that is not recognized
C18_Witness ==
    /\ StrategyDone
    /\ syn_intents = <<"market_expansion", "risk_compliance", "cost_reduction">>
    /\ syn_swot.strengths = <<>>
    /\ strategies = <<CostStrategy, ExpansionStrategy>>

\* ------------------------------------------------------------------------
\* strategy_generator.generate_kpis
\* ------------------------------------------------------------------------
\* kpis += pair if the test holds
ExtendIf(test, pair) == IF test THEN pair ELSE <<>>

\* the list kpis before it is deduplicated
KpiList(ints) ==
    ExtendIf(In("growth", ints), <<"Revenue Growth Rate", "Customer Acquisition Rate">>)
        \o ExtendIf(In("cost_reduction", ints), <<"Operational Cost Ratio", "Cost per Unit">>)
        \o ExtendIf(In("market_expansion", ints), <<"Market Penetration", "Regional Sales Growth">>)
        \o ExtendIf(In("digital_transformation", ints), <<"Automation Coverage", "System Downtime">>)
        \o ExtendIf(In("risk_management", ints), <<"Compliance Score", "Risk Incident Rate">>)

\* the deduplicated list returned as it is, empty when no intent is recognized
generate_kpis_nofallback(ints) == Range(KpiList(ints))

\* list(set(kpis)) or [fallback]: the order of the list is that of the set's
\* iteration, the result is kept as a set
generate_kpis(ints) ==
    IF Range(KpiList(ints)) = {} THEN {"Overall Business Performance Index"}
    ELSE Range(KpiList(ints))

GenerateKpis ==
    /\ call = "none"
    /\ \E ints \in IntentLists :
         /\ call' = "generate_kpis"
         /\ kpi_intents' = ints
         /\ kpis' = generate_kpis(ints)
         /\ UNCHANGED <<scoreVars, simVars, qaVars, exVars, kpVars, sumVars, diVars,
                        swVars, synVars, planVars, upVars, prioVars, llmVars, cacheVars,
                        webVars>>

\* ------------------------------------------------------------------------
\* Properties of generate_kpis
\* ------------------------------------------------------------------------
KpisDone == call = "generate_kpis"

KpiPairOf(i) ==
    IF i = "growth" THEN {"Revenue Growth Rate", "Customer Acquisition Rate"}
    ELSE IF i = "cost_reduction" THEN {"Operational Cost Ratio", "Cost per Unit"}
    ELSE IF i = "market_expansion" THEN {"Market Penetration", "Regional Sales Growth"}
    ELSE IF i = "digital_transformation" THEN {"Automation Coverage", "System Downtime"}
    ELSE IF i = "risk_management" THEN {"Compliance Score", "Risk Incident Rate"}
    ELSE {}

\* the distinct recognized intents of the argument
RecognizedKpiIntents == {i \in Range(kpi_intents) : KpiPairOf(i) # {}}

\* C19: generate_kpis returns a duplicate-free collection holding exactly
\* the fixed pair of KPI names of each recognized intent, 2k names for k
\* distinct recognized intents also when an intent is repeated, and exactly
\* the single fallback KPI when no intent is recognized.
C19_KpiPairs ==
    KpisDone =>
        IF RecognizedKpiIntents = {}
        THEN kpis = {"Overall Business Performance Index"}
        ELSE /\ kpis = UNION {KpiPairOf(i) : i \in RecognizedKpiIntents}
             /\ Cardinality(kpis) = 2 * Cardinality(RecognizedKpiIntents)

\* an intent given twice next to another one: four names
C19_Witness ==
    /\ KpisDone
    /\ kpi_intents = <<"risk_management", "growth", "risk_management">>
    /\ kpis = {"Compliance Score", "Risk Incident Rate",
               "Revenue Growth Rate", "Customer Acquisition Rate"}

\* ------------------------------------------------------------------------
\* generate_action_plan of strategy_generator and of nlp_processor
\* ------------------------------------------------------------------------
\* "Implement initiative for "
ImplementPrefix ==
    <<"I", "m", "p", "l", "e", "m", "e", "n", "t", " ", "i", "n", "i", "t", "i", "a",
      "t", "i", "v", "e", " ", "f", "o", "r", " ">>

\* the timeline of strategy_generator: "3-6 months", the dash being a
\* mis-encoded en dash in the source
FixedTimeline == "3-6 months"

\* strategy_generator.generate_action_plan, the function app.py imports
generate_action_plan(strats) ==
    [i \in DOMAIN strats |->
        [strategy |-> strats[i],
         action |-> ImplementPrefix \o strats[i],
         timeline |-> FixedTimeline]]

\* "Initiate project team and allocate budget for "
InitiatePrefix ==
    <<"I", "n", "i", "t", "i", "a", "t", "e", " ", "p", "r", "o", "j", "e", "c", "t",
      " ", "t", "e", "a", "m", " ", "a", "n", "d", " ", "a", "l", "l", "o", "c", "a",
      "t", "e", " ", "b", "u", "d", "g", "e", "t", " ", "f", "o", "r", " ">>

\* " phase."
PhaseSuffix == <<" ", "p", "h", "a", "s", "e", ".">>

\* strat.split()[0]: the characters before the first whitespace
RECURSIVE FirstWordFrom(_, _)
FirstWordFrom(s, i) ==
    IF i > Len(s) \/ IsSpace(s[i]) THEN <<>> ELSE <<s[i]>> \o FirstWordFrom(s, i + 1)

FirstWord(s) == FirstWordFrom(LStrip(s), 1)

timelines == <<"Immediate (0-3 Months)", "Short Term (3-6 Months)", "Long Term (6-12 Months)">>

\* nlp_processor.generate_action_plan; enumerate counts from 0
nlp_generate_action_plan(strats) ==
    [i \in DOMAIN strats |->
        [strategy |-> strats[i],
         action |-> InitiatePrefix \o Lower(FirstWord(strats[i])) \o PhaseSuffix,
         timeline |-> timelines[((i - 1) % 3) + 1]]]

\* lists of strategies as generate_initial_strategy returns them
StrategyLists ==
    UNION {[1..n -> {GrowthStrategy, CostStrategy, FallbackStrategy}] : n \in 0..MaxStrategies}

GenerateActionPlan ==
    /\ call = "none"
    /\ \E strats \in StrategyLists :
         /\ call' = "generate_action_plan"
         /\ plan_strategies' = strats
         /\ action_plan' = generate_action_plan(strats)
         /\ UNCHANGED <<scoreVars, simVars, qaVars, exVars, kpVars, sumVars, diVars,
                        swVars, synVars, kpiVars, upVars, prioVars, llmVars, cacheVars,
                        webVars>>

NlpGenerateActionPlan ==
    /\ call = "none"
    /\ \E strats \in StrategyLists :
         /\ call' = "nlp_processor.generate_action_plan"
         /\ plan_strategies' = strats
         /\ action_plan' = nlp_generate_action_plan(strats)
         /\ UNCHANGED <<scoreVars, simVars, qaVars, exVars, kpVars, sumVars, diVars,
                        swVars, synVars, kpiVars, upVars, prioVars, llmVars, cacheVars,
                        webVars>>

\* ------------------------------------------------------------------------
\* Properties of generate_action_plan
\* ------------------------------------------------------------------------
ActionPlanDone == call \in {"generate_action_plan", "nlp_processor.generate_action_plan"}

Rotation == <<"Immediate", "Short Term", "Long Term">>

\* the rotation name a timeline label stands for
TimelineName(label) ==
    IF label = "Immediate (0-3 Months)" THEN "Immediate"
    ELSE IF label = "Short Term (3-6 Months)" THEN "Short Term"
    ELSE IF label = "Long Term (6-12 Months)" THEN "Long Term"
    ELSE label

\* C20: generate_action_plan returns exactly one entry per strategy in
\* input order, and the entry at position i (from 0) has the timeline at
\* index i modulo 3 of the rotation (Immediate, Short Term, Long Term).
C20_TimelineRotation ==
    ActionPlanDone =>
        /\ Len(action_plan) = Len(plan_strategies)
        /\ \A i \in DOMAIN action_plan :
              /\ action_plan[i].strategy = plan_strategies[i]
              /\ TimelineName(action_plan[i].timeline) = Rotation[((i - 1) % 3) + 1]

\* ------------------------------------------------------------------------
\* strategy_generator.prioritize_strategies
\* ------------------------------------------------------------------------
\* "High" if "growth" in s else "Medium": the test without s.lower()
prioritize_strategies_cased(strats, sw) ==
    [i \in DOMAIN strats |->
        [strategy |-> strats[i],
         priority |-> IF Contains(strats[i], <<"g", "r", "o", "w", "t", "h">>)
                      THEN "High" ELSE "Medium"]]

prioritize_strategies(strats, sw) ==
    [i \in DOMAIN strats |->
        [strategy |-> strats[i],
         priority |-> IF Contains(Lower(strats[i]), <<"g", "r", "o", "w", "t", "h">>)
                      THEN "High" ELSE "Medium"]]

\* ------------------------------------------------------------------------
\* strategy_generator.generate_full_strategy_profile
\* ------------------------------------------------------------------------
\* A JSON value is kept with its type: a dict is a function on its keys.
Dict(d) == [type |-> "dict", value |-> d]
List(l) == [type |-> "list", value |-> l]

\* the dict returned by the except branch
FallbackProfile ==
    Dict([intents |-> <<"General Strategy">>,
          swot |-> [strengths |-> <<"Stable operations">>,
                    weaknesses |-> <<"Needs optimization">>,
                    opportunities |-> <<"Market growth">>,
                    threats |-> <<"Competition">>],
          pestle |-> None,
          porters |-> None])

\* The API call raises, or the text it returns does not parse: kind is
\* "error". Otherwise data is json.loads of the text, whatever it holds.
generate_full_strategy_profile(api) ==
    IF api.kind = "error" THEN FallbackProfile ELSE api.data

\* ------------------------------------------------------------------------
\* app.user_documents, the upload of a document
\* ------------------------------------------------------------------------
\* dict.get(key, default)
Get(d, key, default) == IF key \in DOMAIN d THEN d[key] ELSE default

EmptySwot == [strengths |-> <<>>, weaknesses |-> <<>>, opportunities |-> <<>>, threats |-> <<>>]

\* The handler from the API call to insert_one. The fields of the document
\* that come from the text analysis (summary, sentiment, entities,
\* keywords, word_count) do not depend on the API and are left out.
user_documents(api) ==
    LET llm_analysis == generate_full_strategy_profile(api)
    IN IF llm_analysis.type # "dict"
       THEN [stored |-> None, error |-> "AttributeError"]
       ELSE LET ints == Get(llm_analysis.value, "intents", <<"general_strategy">>)
                sw == Get(llm_analysis.value, "swot", EmptySwot)
                strats == generate_initial_strategy(ints, sw)
            IN [stored |->
                    [intents |-> ints,
                     swot |-> sw,
                     pestle |-> Get(llm_analysis.value, "pestle", None),
                     porters |-> Get(llm_analysis.value, "porters", None),
                     strategies |-> strats,
                     kpis |-> generate_kpis(ints),
                     action_plan |-> generate_action_plan(strats),
                     prioritized_strategies |-> prioritize_strategies(strats, sw)],
                error |-> "none"]

\* the structure the prompt asks for
FullSwot ==
    [strengths |-> <<"s1", "s2", "s3">>, weaknesses |-> <<"w1", "w2", "w3">>,
     opportunities |-> <<"o1", "o2", "o3">>, threats |-> <<"t1", "t2", "t3">>]

FullPestle ==
    [Political |-> "p", Economic |-> "e", Social |-> "s", Technological |-> "t",
     Legal |-> "l", Environmental |-> "v"]

FullPorters ==
    ("Competitive Rivalry" :> "High") @@ ("Supplier Power" :> "Low")
        @@ ("Buyer Power" :> "Medium") @@ ("Threat of Substitutes" :> "Low")
        @@ ("Threat of New Entrants" :> "High")

\* a key of a response: absent, or present with one of the values
Optional(key, values) == {None} \cup {key :> v : v \in values}

\* JSON objects the API may answer with: each key as asked for, absent, or
\* with less than was asked for
ResponseDicts ==
    {i @@ s @@ p @@ q :
        i \in Optional("intents", {<<"market_expansion", "cost_reduction">>, <<"growth">>}),
        s \in Optional("swot", {FullSwot, [FullSwot EXCEPT !.threats = <<>>],
                                [strengths |-> <<"s1">>]}),
        p \in Optional("pestle", {FullPestle, [Political |-> "p"]}),
        q \in Optional("porters", {FullPorters, None})}

ApiOutcomes ==
    {[kind |-> "error", data |-> None]}
        \cup {[kind |-> "json", data |-> Dict(d)] : d \in ResponseDicts}
        \cup {[kind |-> "json", data |-> List(<<>>)]}

UploadDocument ==
    /\ call = "none"
    /\ \E api \in ApiOutcomes :
         LET r == user_documents(api)
         IN /\ call' = "user_documents"
            /\ api_outcome' = api
            /\ stored_doc' = r.stored
            /\ upload_error' = r.error
            /\ UNCHANGED <<scoreVars, simVars, qaVars, exVars, kpVars, sumVars, diVars,
                           swVars, synVars, kpiVars, planVars, prioVars, llmVars,
                           cacheVars, webVars>>

\* ------------------------------------------------------------------------
\* Properties of the stored strategic frameworks
\* ------------------------------------------------------------------------
DocumentStored == call = "user_documents" /\ upload_error = "none"

PestleKeys == {"Political", "Economic", "Social", "Technological", "Legal", "Environmental"}

PortersKeys ==
    {"Competitive Rivalry", "Supplier Power", "Buyer Power", "Threat of Substitutes",
     "Threat of New Entrants"}

\* the names generate_porters uses for the same five forces
PortersKeysHeuristic ==
    {"Competitive Rivalry", "Supplier Power", "Buyer Power", "Threat of Substitution",
     "Threat of New Entry"}

\* C17: every StrategicFramework stored for an uploaded document, from a
\* successful API response or from the failure fallback, has all four SWOT
\* categories non-empty, all six PESTLE keys and all five Porter's keys.
C17_StoredFrameworkComplete ==
    DocumentStored =>
        /\ \A c \in {"strengths", "weaknesses", "opportunities", "threats"} :
              c \in DOMAIN stored_doc.swot /\ stored_doc.swot[c] # <<>>
        /\ PestleKeys \subseteq DOMAIN stored_doc.pestle
        /\ \/ PortersKeys \subseteq DOMAIN stored_doc.porters
           \/ PortersKeysHeuristic \subseteq DOMAIN stored_doc.porters

\* ------------------------------------------------------------------------
\* Calls of strategy_generator.prioritize_strategies
\* ------------------------------------------------------------------------
\* "Growth Hacking"
GrowthTitle ==
    <<"G", "r", "o", "w", "t", "h", " ", "H", "a", "c", "k", "i", "n", "g">>

\* "Q3 GROWTH"
GrowthUpper == <<"Q", "3", " ", "G", "R", "O", "W", "T", "H">>

\* "Grow the team": "grow" without "growth"
GrowOnly == <<"G", "r", "o", "w", " ", "t", "h", "e", " ", "t", "e", "a", "m">>

PriorityTexts == {GrowthStrategy, CostStrategy, GrowthTitle, GrowthUpper, GrowOnly}

PriorityLists == UNION {[1..n -> PriorityTexts] : n \in 0..MaxPriorities}

PrioritizeStrategies ==
    /\ call = "none"
    /\ \E strats \in PriorityLists, sw \in GivenSwots :
         /\ call' = "prioritize_strategies"
         /\ prio_strategies' = strats
         /\ prio_swot' = sw
         /\ prioritized' = prioritize_strategies(strats, sw)
         /\ UNCHANGED <<prio_swot_again, prioritized_again>>
         /\ UNCHANGED <<scoreVars, simVars, qaVars, exVars, kpVars, sumVars, diVars,
                        swVars, synVars, kpiVars, planVars, upVars, llmVars, cacheVars,
                        webVars>>

\* the function is applied a second time to the same strategies, with the
\* same or another swot
PrioritizeStrategiesAgain ==
    /\ call = "prioritize_strategies"
    /\ \E sw \in GivenSwots :
         /\ call' = "prioritize_strategies again"
         /\ prio_swot_again' = sw
         /\ prioritized_again' = prioritize_strategies(prio_strategies, sw)
         /\ UNCHANGED <<prio_strategies, prio_swot, prioritized>>
         /\ UNCHANGED <<scoreVars, simVars, qaVars, exVars, kpVars, sumVars, diVars,
                        swVars, synVars, kpiVars, planVars, upVars, llmVars, cacheVars,
                        webVars>>

\* ------------------------------------------------------------------------
\* Properties of prioritize_strategies
\* ------------------------------------------------------------------------
Prioritized == call \in {"prioritize_strategies", "prioritize_strategies again"}

PrioritizedTwice == call = "prioritize_strategies again"

\* "growth" occurs in s when letter case is ignored
MentionsGrowth(s) ==
    \E i \in 1..(Len(s) - 5) :
        /\ s[i] \in {"g", "G"} /\ s[i + 1] \in {"r", "R"} /\ s[i + 2] \in {"o", "O"}
        /\ s[i + 3] \in {"w", "W"} /\ s[i + 4] \in {"t", "T"} /\ s[i + 5] \in {"h", "H"}

\* C21: prioritize_strategies returns one entry per strategy in input
\* order; the priority of an entry is High if and only if its strategy
\* contains "growth" in any letter case, Medium otherwise; a second call on
\* the same strategies returns the same list whatever swot it is given.
C21_PriorityByGrowth ==
    /\ Prioritized =>
          /\ Len(prioritized) = Len(prio_strategies)
          /\ \A i \in DOMAIN prioritized :
                /\ prioritized[i].strategy = prio_strategies[i]
                /\ prioritized[i].priority \in {"High", "Medium"}
                /\ prioritized[i].priority = "High" <=> MentionsGrowth(prio_strategies[i])
    /\ PrioritizedTwice => prioritized_again = prioritized

\* a list with "growth" in lower, title and upper case and two strategies
\* without it, prioritized twice with different swots
C21_Witness ==
    /\ PrioritizedTwice
    /\ prio_swot_again # prio_swot
    /\ {GrowthStrategy, GrowthUpper, GrowOnly} \subseteq Range(prio_strategies)
    /\ \E i, j \in DOMAIN prioritized :
          prioritized[i].priority = "High" /\ prioritized[j].priority = "Medium"

\* ------------------------------------------------------------------------
\* strategy_generator.generate_performance_metrics and simulate_scenario_llm
\* ------------------------------------------------------------------------
\* json.loads of the text "null"
Null == [type |-> "null", value |-> None]

\* the dict returned by the except branch of generate_performance_metrics
FallbackMetrics ==
    Dict([scores |-> [readiness |-> 50, maturity |-> 50, digital |-> 50, risk |-> 50],
          kpi_labels |-> <<"Revenue", "Efficiency", "Market Share", "Stability">>,
          kpi_values |-> <<50, 50, 50, 50>>,
          growth_trend |-> <<50, 52, 54, 56>>,
          risk_trend |-> <<50, 48, 46, 44>>])

\* As in generate_full_strategy_profile: kind is "error" when the API call
\* raises or the text does not parse, otherwise data is json.loads of it.
generate_performance_metrics(api) ==
    IF api.kind = "error" THEN FallbackMetrics ELSE api.data

\* " Strategy"
StrategySuffix == <<" ", "S", "t", "r", "a", "t", "e", "g", "y">>

\* the dict returned by the except branch of simulate_scenario_llm
FallbackScenario(tag) ==
    Dict([focus |-> Title(tag) \o StrategySuffix,
          readiness |-> 50, risk |-> 50, revenue |-> 50, cost_efficiency |-> 50,
          stability |-> 50,
          explanation |-> "Simulation unavailable at this time."])

simulate_scenario_llm(api, tag) ==
    IF api.kind = "error" THEN FallbackScenario(tag) ELSE api.data

\* JSON objects the API may answer the metrics prompt with
MetricsDicts ==
    {s @@ l @@ v @@ g @@ r :
        s \in Optional("scores",
                       {[readiness |-> 70, maturity |-> 60, digital |-> 55, risk |-> 30],
                        [readiness |-> 150, maturity |-> 60, digital |-> 55, risk |-> 30],
                        [readiness |-> 70]}),
        l \in Optional("kpi_labels", {<<"Churn", "Margin", "NPS", "Uptime">>,
                                      <<"Churn", "Margin">>}),
        v \in Optional("kpi_values", {<<12, 34, 56, 78>>}),
        g \in Optional("growth_trend", {<<40, 45, 50, 55>>}),
        r \in Optional("risk_trend", {<<30, 28, 26, 24>>, <<>>})}

MetricsOutcomes ==
    {[kind |-> "error", data |-> None]}
        \cup {[kind |-> "json", data |-> Dict(d)] : d \in MetricsDicts}
        \cup {[kind |-> "json", data |-> List(<<>>)], [kind |-> "json", data |-> Null]}

\* "Premium Market Push"
PushFocus ==
    <<"P", "r", "e", "m", "i", "u", "m", " ", "M", "a", "r", "k", "e", "t", " ", "P",
      "u", "s", "h">>

\* JSON objects the API may answer the scenario prompt with
ScenarioDicts ==
    {f @@ a @@ b @@ c @@ d @@ e @@ x :
        f \in Optional("focus", {PushFocus}),
        a \in Optional("readiness", {60, 120}),
        b \in Optional("risk", {40}),
        c \in Optional("revenue", {85}),
        d \in Optional("cost_efficiency", {40}),
        e \in Optional("stability", {45, -5}),
        x \in Optional("explanation", {"Margins widen. Churn falls."})}

ScenarioOutcomes ==
    {[kind |-> "error", data |-> None]}
        \cup {[kind |-> "json", data |-> Dict(d)] : d \in ScenarioDicts}
        \cup {[kind |-> "json", data |-> List(<<>>)], [kind |-> "json", data |-> Null]}

\* request.args.get("scenario", "growth")
ScenarioTypes == {<<"g", "r", "o", "w", "t", "h">>, <<"c", "o", "s", "t">>}

GenerateFullStrategyProfile ==
    /\ call = "none"
    /\ \E api \in ApiOutcomes :
         /\ call' = "generate_full_strategy_profile"
         /\ llm_api' = api
         /\ llm_result' = generate_full_strategy_profile(api)
         /\ UNCHANGED llm_scenario
         /\ UNCHANGED <<scoreVars, simVars, qaVars, exVars, kpVars, sumVars, diVars,
                        swVars, synVars, kpiVars, planVars, upVars, prioVars, cacheVars,
                        webVars>>

GeneratePerformanceMetrics ==
    /\ call = "none"
    /\ \E api \in MetricsOutcomes :
         /\ call' = "generate_performance_metrics"
         /\ llm_api' = api
         /\ llm_result' = generate_performance_metrics(api)
         /\ UNCHANGED llm_scenario
         /\ UNCHANGED <<scoreVars, simVars, qaVars, exVars, kpVars, sumVars, diVars,
                        swVars, synVars, kpiVars, planVars, upVars, prioVars, cacheVars,
                        webVars>>

SimulateScenarioLlm ==
    /\ call = "none"
    /\ \E api \in ScenarioOutcomes, tag \in ScenarioTypes :
         /\ call' = "simulate_scenario_llm"
         /\ llm_api' = api
         /\ llm_scenario' = tag
         /\ llm_result' = simulate_scenario_llm(api, tag)
         /\ UNCHANGED <<scoreVars, simVars, qaVars, exVars, kpVars, sumVars, diVars,
                        swVars, synVars, kpiVars, planVars, upVars, prioVars, cacheVars,
                        webVars>>

\* ------------------------------------------------------------------------
\* Properties of the three generative-API call sites
\* ------------------------------------------------------------------------
ApiCallSites ==
    {"generate_full_strategy_profile", "generate_performance_metrics",
     "simulate_scenario_llm"}

ApiCallDone == call \in ApiCallSites

\* int(0-100)
IsScore(d, key) == key \in DOMAIN d /\ d[key] \in 0..100

\* a list of four entries under key
IsFour(d, key) == key \in DOMAIN d /\ Len(d[key]) = 4

\* the structure the prompt of generate_full_strategy_profile asks for
MatchesProfileSchema(v) ==
    /\ v.type = "dict"
    /\ {"intents", "swot", "pestle", "porters"} \subseteq DOMAIN v.value
    /\ v.value["intents"] # <<>>
    /\ SwotKeys \subseteq DOMAIN v.value["swot"]
    /\ PestleKeys \subseteq DOMAIN v.value["pestle"]
    /\ PortersKeys \subseteq DOMAIN v.value["porters"]

\* the structure the prompt of generate_performance_metrics asks for
MatchesMetricsSchema(v) ==
    /\ v.type = "dict"
    /\ "scores" \in DOMAIN v.value
    /\ \A k \in {"readiness", "maturity", "digital", "risk"} : IsScore(v.value["scores"], k)
    /\ \A k \in {"kpi_labels", "kpi_values", "growth_trend", "risk_trend"} :
          IsFour(v.value, k)

\* the structure the prompt of simulate_scenario_llm asks for
MatchesScenarioSchema(v) ==
    /\ v.type = "dict"
    /\ {"focus", "explanation"} \subseteq DOMAIN v.value
    /\ \A k \in {"readiness", "risk", "revenue", "cost_efficiency", "stability"} :
          IsScore(v.value, k)

MatchesSchema(site, v) ==
    IF site = "generate_full_strategy_profile" THEN MatchesProfileSchema(v)
    ELSE IF site = "generate_performance_metrics" THEN MatchesMetricsSchema(v)
    ELSE MatchesScenarioSchema(v)

FallbackOf(site) ==
    IF site = "generate_full_strategy_profile" THEN FallbackProfile
    ELSE IF site = "generate_performance_metrics" THEN FallbackMetrics
    ELSE FallbackScenario(llm_scenario)

ApiFailed == llm_api.kind = "error"

\* C22: at each of the three call sites a failed call, an unparsable
\* response or a parsed response that does not match the call site's
\* schema makes the function return the call site's static fallback
\* payload, and nothing but that payload or a value of the schema is
\* returned.
C22_FallbackOnMalformed ==
    ApiCallDone =>
        /\ (ApiFailed \/ ~MatchesSchema(call, llm_api.data)) => llm_result = FallbackOf(call)
        /\ llm_result = FallbackOf(call) \/ MatchesSchema(call, llm_result)

\* what the code does guarantee: the fallback on a failed call or an
\* unparsable response, the parsed value otherwise
FallbackOnFailureOnly ==
    ApiCallDone =>
        llm_result = IF ApiFailed THEN FallbackOf(call) ELSE llm_api.data

\* ------------------------------------------------------------------------
\* app.user_performance and app.user_scenarios: the cached pages of a document
\* ------------------------------------------------------------------------
\* The pages are requested for one uploaded document of the logged-in user
\* (get_active_document returns it and it has raw_text). A worker handles
\* one request at a time; the steps of a handler are separated where it
\* talks to the database or to the API, so that requests of different
\* workers interleave there.
Workers == 1..MaxWorkers

CachedPages ==
    {[route |-> "user_performance", tag |-> <<>>]}
        \cup {[route |-> "user_scenarios", tag |-> t] : t \in ScenarioTypes}

\* "performance_metrics", or scenario_key = f"scenario_{scenario_type}"
KeyOf(page) ==
    IF page.route = "user_performance" THEN <<"performance_metrics">>
    ELSE <<"scenario_">> \o page.tag

CacheKeys == {KeyOf(page) : page \in CachedPages}

\* answers of the API to the prompt of a page: a failure, or the JSON asked for
PageAnswers(page) ==
    {[kind |-> "error", data |-> None],
     [kind |-> "json",
      data |-> IF page.route = "user_performance"
               THEN Dict([scores |-> [readiness |-> 70, maturity |-> 60, digital |-> 55,
                                      risk |-> 30],
                          kpi_labels |-> <<"Churn", "Margin", "NPS", "Uptime">>,
                          kpi_values |-> <<12, 34, 56, 78>>,
                          growth_trend |-> <<40, 45, 50, 55>>,
                          risk_trend |-> <<30, 28, 26, 24>>])
               ELSE Dict([focus |-> PushFocus, readiness |-> 60, risk |-> 40,
                          revenue |-> 85, cost_efficiency |-> 40, stability |-> 45,
                          explanation |-> "Margins widen. Churn falls."])]}

\* generate_performance_metrics(doc["raw_text"]) or
\* simulate_scenario_llm(doc["raw_text"], scenario_type)
CallApi(page, api) ==
    IF page.route = "user_performance" THEN generate_performance_metrics(api)
    ELSE simulate_scenario_llm(api, page.tag)

IdleRequest == [pc |-> "idle", page |-> None, doc |-> None, result |-> None, calls |-> 0]

\* doc = get_active_document() and the test "key in doc": the handler
\* works on the copy of the record that find_one returned
GetActiveDocument(w) ==
    /\ requests[w].pc = "idle"
    /\ served < MaxRequests
    /\ \E page \in CachedPages :
         LET key == KeyOf(page)
             hit == key \in DOMAIN doc_record
         IN requests' = [requests EXCEPT ![w] =
                            [pc |-> IF hit THEN "hit" ELSE "miss",
                             page |-> page,
                             doc |-> IF hit THEN key :> doc_record[key] ELSE None,
                             result |-> IF hit THEN doc_record[key] ELSE None,
                             calls |-> 0]]
    /\ served' = served + 1
    /\ UNCHANGED <<doc_record, first_stored, api_calls>>

\* the else branch: the API is asked
GenerateOnMiss(w) ==
    /\ requests[w].pc = "miss"
    /\ LET page == requests[w].page
       IN /\ \E api \in PageAnswers(page) :
                requests' = [requests EXCEPT ![w].pc = "generated",
                                             ![w].result = CallApi(page, api),
                                             ![w].calls = @ + 1]
          /\ api_calls' = [api_calls EXCEPT ![KeyOf(page)] = @ + 1]
    /\ UNCHANGED <<doc_record, first_stored, served>>

\* update_one({"_id": doc["_id"]}, {"$set": {key: result}})
SaveResult(w) ==
    /\ requests[w].pc = "generated"
    /\ LET key == KeyOf(requests[w].page)
           value == requests[w].result
       IN /\ doc_record' = (key :> value) @@ doc_record
          /\ first_stored' = first_stored @@ (key :> value)
    /\ requests' = [requests EXCEPT ![w].pc = "saved"]
    /\ UNCHANGED <<api_calls, served>>

\* after the if / else, under the comment REAL-TIME: the API is asked
\* again and its answer replaces the result
GenerateAgain(w) ==
    /\ requests[w].pc \in {"hit", "saved"}
    /\ LET page == requests[w].page
       IN /\ \E api \in PageAnswers(page) :
                requests' = [requests EXCEPT ![w].pc = "render",
                                             ![w].result = CallApi(page, api),
                                             ![w].calls = @ + 1]
          /\ api_calls' = [api_calls EXCEPT ![KeyOf(page)] = @ + 1]
    /\ UNCHANGED <<doc_record, first_stored, served>>

\* render_template(..., result): the response is sent, the worker is free
Render(w) ==
    /\ requests[w].pc = "render"
    /\ requests' = [requests EXCEPT ![w] = IdleRequest]
    /\ UNCHANGED <<doc_record, first_stored, api_calls, served>>

CachedPageRequest ==
    /\ \E w \in Workers :
          \/ GetActiveDocument(w)
          \/ GenerateOnMiss(w)
          \/ SaveResult(w)
          \/ GenerateAgain(w)
          \/ Render(w)
    /\ UNCHANGED <<call, scoreVars, simVars, qaVars, exVars, kpVars, sumVars, diVars,
                   swVars, synVars, kpiVars, planVars, upVars, prioVars, llmVars,
                   webVars>>

\* ------------------------------------------------------------------------
\* Properties of the cached pages
\* ------------------------------------------------------------------------
\* worker w is about to render, for a request that found the value stored
ShowsAfterStored(w) ==
    /\ requests[w].pc = "render"
    /\ requests[w].doc # None

\* C23: for one document the API is called at most once for the
\* performance metrics and at most once per scenario tag, and a request
\* made after the value is stored shows the stored value and calls no API.
C23_ComputeOnceReadThereafter ==
    /\ \A key \in CacheKeys : api_calls[key] <= 1
    /\ \A w \in Workers :
          ShowsAfterStored(w) =>
              /\ requests[w].calls = 0
              /\ requests[w].result = doc_record[KeyOf(requests[w].page)]

\* C28: under every interleaving of the requests for a document, a cached
\* field of the record keeps the value that was stored in it first.
C28_CacheWrittenOnce ==
    \A key \in DOMAIN doc_record : doc_record[key] = first_stored[key]

\* ------------------------------------------------------------------------
\* Properties of the extractor: one reader per result, idempotent cleaning
\* ------------------------------------------------------------------------
\* the text of all pages as the primary reader yields them, on its own
PrimaryAlone == PagesText(file.plumber_pages, 1, Len(file.plumber_pages))

\* the primary reader yielded text for some page before it failed
PrimaryFailedMidway ==
    /\ PrimaryFailed
    /\ ReadPages(file.plumber_pages, file.plumber_fail) # <<>>

\* C24: the text extract_from_pdf returns comes from exactly one reader:
\* from the primary when it succeeds; when the primary fails (also after
\* it has yielded text for some pages) and the fallback succeeds, the
\* result is the cleaned text of the fallback alone.
C24_OneExtractorOnly ==
    (PdfExtracted /\ ~(PrimaryFailed /\ FallbackFailed)) =>
        /\ ~PrimaryFailed => extracted = clean_text(PrimaryAlone)
        /\ PrimaryFailedMidway => extracted = clean_text(FallbackAlone)

\* a text file was read and cleaned
TxtCleaned ==
    /\ ExtractDone
    /\ file.exists
    /\ LowerCased(file.ext) = <<".", "t", "x", "t">>
    /\ ~file.read_fail

\* C25: clean_text is idempotent: cleaning a cleaned text changes nothing,
\* also for texts with non-ASCII characters next to spaces.
C25_CleanTextIdempotent ==
    TxtCleaned =>
        /\ extracted = clean_text(file.content)
        /\ clean_text(clean_text(file.content)) = clean_text(file.content)

\* ------------------------------------------------------------------------
\* Properties of the values get_document_answer returns
\* ------------------------------------------------------------------------
FixedMessages ==
    {"The document appears to be empty or too short to analyze.",
     "Please ask a question containing words, not just symbols.",
     "I couldn't analyze the text structure. It might be too short or generic.",
     "No relevant content found.",
     "I couldn't find a direct answer in the document. Try asking with different keywords found in the file."}

\* the text gave no sentence: the list given to the vectorizer holds the
\* question alone, and the vectorizer built a vocabulary from it
NoDocumentSentence ==
    /\ AnswerDone
    /\ vectorizer_called
    /\ Len(sentences) = 1
    /\ answer.message # "I couldn't analyze the text structure. It might be too short or generic."

\* the answer is the sentence at an index before the question's
DocumentSentenceReturned ==
    /\ answer.message = ""
    /\ vectorizer_called
    /\ \E i \in 1..(Len(sentences) - 1) : answer.sentence = sentences[i]

\* C26: get_document_answer returns one of its five fixed messages or a
\* sentence of the document, never the entry it appended for the question,
\* and it returns "No relevant content found." when the document splits
\* into zero sentences; no exception is raised.
C26_MessageOrDocumentSentence ==
    AnswerDone =>
        /\ qa_error = "none"
        /\ \/ answer.message \in FixedMessages /\ answer.sentence = <<>>
           \/ DocumentSentenceReturned
        /\ NoDocumentSentence => answer.message = "No relevant content found."

\* the same without the case of zero sentences, which the code does not
\* handle
MessageOrDocumentSentence ==
    (AnswerDone /\ ~NoDocumentSentence) =>
        /\ qa_error = "none"
        /\ \/ answer.message \in FixedMessages /\ answer.sentence = <<>>
           \/ DocumentSentenceReturned
        /\ answer.message # "No relevant content found."

\* ------------------------------------------------------------------------
\* The classifier's intents given to the strategy synthesizer
\* ------------------------------------------------------------------------
\* intents = detect_business_intent(text), then generate_initial_strategy
\* and generate_kpis of strategy_generator on that list
SynthesizeFromClassifier ==
    /\ call = "none"
    /\ \E text \in IntentTexts, sw \in GivenSwots :
         LET ints == detect_business_intent(text)
         IN /\ call' = "detect_business_intent, generate_initial_strategy, generate_kpis"
            /\ intent_text' = text
            /\ intent_counts' = IntentScores(text)
            /\ detected' = ints
            /\ syn_intents' = ints
            /\ syn_swot' = sw
            /\ strategies' = generate_initial_strategy(ints, sw)
            /\ kpi_intents' = ints
            /\ kpis' = generate_kpis(ints)
            /\ UNCHANGED <<scoreVars, simVars, qaVars, exVars, kpVars, sumVars, swVars,
                           planVars, upVars, prioVars, llmVars, cacheVars, webVars>>

\* ------------------------------------------------------------------------
\* Properties of the classifier's labels in the synthesizer
\* ------------------------------------------------------------------------
Synthesized == call = "detect_business_intent, generate_initial_strategy, generate_kpis"

ClassifierLabels ==
    {"market_expansion", "cost_reduction", "risk_compliance", "digital_transformation"}

\* C29: every label detect_business_intent returns is recognized by
\* generate_initial_strategy and generate_kpis: a list of intents from the
\* classifier yields neither the fallback strategy nor the fallback KPI,
\* and one strategy and one pair of KPI names per intent.
C29_ClassifierLabelsRecognized ==
    Synthesized =>
        /\ Range(detected) \subseteq ClassifierLabels
        /\ FallbackStrategy \notin Range(strategies)
        /\ "Overall Business Performance Index" \notin kpis
        /\ Len(strategies) = Cardinality(Range(detected))
        /\ Cardinality(kpis) = 2 * Cardinality(Range(detected))

\* what holds: the three labels the synthesizer knows contribute, the
\* label risk_compliance contributes nothing
KnownLabelsContribute ==
    Synthesized =>
        /\ Range(detected) \subseteq ClassifierLabels
        /\ Len(strategies) = Cardinality(Range(detected) \ {"risk_compliance"})
        /\ Cardinality(kpis) = 2 * Cardinality(Range(detected) \ {"risk_compliance"})

\* ------------------------------------------------------------------------
\* app: sessions, accounts and the documents of a user
\* ------------------------------------------------------------------------
Clients == 1..MaxClients

Emails == {"admin@corp", "ann@corp", "bob@corp"}

\* the users collection before the first request: the administrator's
\* record (no route creates one)
SeededUsers == "admin@corp" :> [role |-> "admin"]

\* _id values: those of the inserts, in the order of the inserts
DocumentIds == 1..MaxDocuments

NoDocument == 0

NoResponse == [client |-> 0, route |-> "", status |-> "", as_user |-> "", docs |-> {}]

\* "user" in session
LoggedIn(s) == "user" \in DOMAIN s

\* a record of the documents collection as a response uses it
Read(id) == [id |-> id, user |-> documents[id].user]

\* what a handler answers client c
Respond(c, route, status, docs) ==
    [client |-> c, route |-> route, status |-> status,
     as_user |-> Get(sessions[c], "user", ""), docs |-> docs]

\* any session with a user passes
admin_required_anyuser(s) == LoggedIn(s)

\* "user" in session and session.get("role") == "admin"
admin_required(s) == LoggedIn(s) /\ Get(s, "role", "") = "admin"

\* find_one({"user": session["user"]}, sort=[("created_at", -1)])
Latest(user) ==
    LET own == {id \in DOMAIN documents : documents[id].user = user}
    IN IF own = {} THEN NoDocument
       ELSE CHOOSE id \in own : \A other \in own : other <= id

\* The selected document if it is the user's, else the user's latest
\* document, which then becomes the selected one.
get_active_document(s) ==
    IF /\ "active_doc_id" \in DOMAIN s
       /\ s["active_doc_id"] \in DOMAIN documents
       /\ documents[s["active_doc_id"]].user = s["user"]
    THEN [doc |-> s["active_doc_id"], session |-> s]
    ELSE LET doc == Latest(s["user"])
         IN [doc |-> doc,
             session |-> IF doc = NoDocument THEN s
                         ELSE ("active_doc_id" :> doc) @@ s]

\* POST /register
Register(c) ==
    /\ \E email \in Emails :
         IF LoggedIn(sessions[c]) THEN
             /\ response' = Respond(c, "register", "user_dashboard", {})
             /\ UNCHANGED users
         ELSE IF email \in DOMAIN users THEN
             /\ response' = Respond(c, "register", "exists", {})
             /\ UNCHANGED users
         ELSE
             /\ users' = users @@ (email :> [role |-> "user"])
             /\ response' = Respond(c, "register", "login", {})
    /\ UNCHANGED <<sessions, documents, inserted>>

\* POST /login; password_matches is the outcome of the comparison of the
\* given password with the stored one
Login(c) ==
    /\ \E email \in Emails, password_matches \in BOOLEAN :
         IF LoggedIn(sessions[c]) THEN
             /\ response' = Respond(c, "login",
                                    IF Get(sessions[c], "role", "") = "admin"
                                    THEN "admin_dashboard" ELSE "user_dashboard", {})
             /\ UNCHANGED sessions
         ELSE IF email \in DOMAIN users /\ password_matches THEN
             LET role == Get(users[email], "role", "user")
             IN /\ sessions' = [sessions EXCEPT ![c] =
                                    ("user" :> email) @@ ("role" :> role) @@ @]
                /\ response' = [client |-> c, route |-> "login",
                                status |-> IF role = "admin" THEN "admin_dashboard"
                                           ELSE "user_dashboard",
                                as_user |-> email, docs |-> {}]
         ELSE
             /\ response' = Respond(c, "login", "invalid", {})
             /\ UNCHANGED sessions
    /\ UNCHANGED <<users, documents, inserted>>

\* GET /logout: session.clear()
Logout(c) ==
    /\ sessions' = [sessions EXCEPT ![c] = None]
    /\ response' = [client |-> c, route |-> "logout", status |-> "landing",
                    as_user |-> "", docs |-> {}]
    /\ UNCHANGED <<users, documents, inserted>>

\* GET /admin/dashboard, which tests the session itself
AdminDashboard(c) ==
    /\ response' =
          IF ~LoggedIn(sessions[c]) \/ Get(sessions[c], "role", "") # "admin"
          THEN Respond(c, "admin_dashboard", "login", {})
          ELSE Respond(c, "admin_dashboard", "ok", {Read(id) : id \in DOMAIN documents})
    /\ UNCHANGED <<users, sessions, documents, inserted>>

\* GET /admin/analytics, users, strategies, risks, logs: admin_required()
AdminPage(c) ==
    /\ \E route \in {"admin_analytics", "admin_users", "admin_strategies", "admin_risks",
                     "admin_logs"} :
         response' =
            IF ~admin_required(sessions[c]) THEN Respond(c, route, "login", {})
            ELSE Respond(c, route, "ok",
                         IF route = "admin_logs" THEN {}
                         ELSE {Read(id) : id \in DOMAIN documents})
    /\ UNCHANGED <<users, sessions, documents, inserted>>

\* GET /user/switch_doc/<doc_id>
SwitchDoc(c) ==
    /\ \E doc_id \in DocumentIds :
         /\ sessions' = IF LoggedIn(sessions[c])
                        THEN [sessions EXCEPT ![c] = ("active_doc_id" :> doc_id) @@ @]
                        ELSE sessions
         /\ response' = Respond(c, "switch_doc", "referrer", {})
    /\ UNCHANGED <<users, documents, inserted>>

\* POST /user/documents with an allowed file: insert_one, the new document
\* becomes the selected one
UserDocumentsPost(c) ==
    /\ inserted < MaxDocuments
    /\ IF ~LoggedIn(sessions[c]) THEN
           /\ response' = Respond(c, "user_documents", "login", {})
           /\ UNCHANGED <<sessions, documents, inserted>>
       ELSE
           LET id == inserted + 1
           IN /\ inserted' = id
              /\ documents' = documents @@ (id :> [user |-> sessions[c]["user"]])
              /\ sessions' = [sessions EXCEPT ![c] = ("active_doc_id" :> id) @@ @]
              /\ response' = Respond(c, "user_documents", "user_documents", {})
    /\ UNCHANGED users

\* GET /user/insights, as every page that shows the selected document
\* (dashboard, overview, chat, performance, scenarios, roadmap)
UserInsights(c) ==
    /\ IF ~LoggedIn(sessions[c]) THEN
           /\ response' = Respond(c, "user_insights", "login", {})
           /\ UNCHANGED sessions
       ELSE
           LET r == get_active_document(sessions[c])
           IN /\ sessions' = [sessions EXCEPT ![c] = r.session]
              /\ response' = Respond(c, "user_insights",
                                     IF r.doc = NoDocument THEN "no documents" ELSE "ok",
                                     IF r.doc = NoDocument THEN {} ELSE {Read(r.doc)})
    /\ UNCHANGED <<users, documents, inserted>>

\* POST /user/delete_document/<doc_id>
DeleteDocument(c) ==
    /\ \E doc_id \in DocumentIds :
         IF ~LoggedIn(sessions[c]) THEN
             /\ response' = Respond(c, "delete_document", "login", {})
             /\ UNCHANGED documents
         ELSE IF doc_id \in DOMAIN documents /\ documents[doc_id].user = sessions[c]["user"]
         THEN
             /\ documents' = [id \in DOMAIN documents \ {doc_id} |-> documents[id]]
             /\ response' = Respond(c, "delete_document", "user_documents", {Read(doc_id)})
         ELSE
             /\ response' = Respond(c, "delete_document", "user_documents", {})
             /\ UNCHANGED documents
    /\ UNCHANGED <<users, sessions, inserted>>

\* POST /user/compare: find_one({"_id": ObjectId(request.form["doc1"])}) and
\* the same for doc2; a document that is not found is None and
\* doc1.get raises
CompareStrategies(c) ==
    /\ \E doc1 \in DocumentIds, doc2 \in DocumentIds :
         response' =
            IF ~LoggedIn(sessions[c]) THEN Respond(c, "compare_strategies", "login", {})
            ELSE IF {doc1, doc2} \subseteq DOMAIN documents
            THEN Respond(c, "compare_strategies", "ok", {Read(doc1), Read(doc2)})
            ELSE Respond(c, "compare_strategies", "AttributeError",
                         {Read(id) : id \in {doc1, doc2} \cap DOMAIN documents})
    /\ UNCHANGED <<users, sessions, documents, inserted>>

\* GET /download/<doc_id>: find_one({"_id": ObjectId(doc_id)})
DownloadPdf(c) ==
    /\ \E doc_id \in DocumentIds :
         response' =
            IF ~LoggedIn(sessions[c]) THEN Respond(c, "download_pdf", "login", {})
            ELSE IF doc_id \notin DOMAIN documents
            THEN Respond(c, "download_pdf", "Document not found", {})
            ELSE Respond(c, "download_pdf", "ok", {Read(doc_id)})
    /\ UNCHANGED <<users, sessions, documents, inserted>>

AccountRequest ==
    /\ \E c \in Clients :
          \/ Register(c)
          \/ Login(c)
          \/ Logout(c)
          \/ AdminDashboard(c)
          \/ AdminPage(c)
    /\ UNCHANGED <<call, scoreVars, simVars, qaVars, exVars, kpVars, sumVars, diVars,
                   swVars, synVars, kpiVars, planVars, upVars, prioVars, llmVars,
                   cacheVars>>

DocumentRequest ==
    /\ \E c \in Clients :
          \/ SwitchDoc(c)
          \/ UserDocumentsPost(c)
          \/ UserInsights(c)
          \/ DeleteDocument(c)
          \/ CompareStrategies(c)
          \/ DownloadPdf(c)
    /\ UNCHANGED <<call, scoreVars, simVars, qaVars, exVars, kpVars, sumVars, diVars,
                   swVars, synVars, kpiVars, planVars, upVars, prioVars, llmVars,
                   cacheVars>>

\* ------------------------------------------------------------------------
\* Properties of the sessions and of the documents of a user
\* ------------------------------------------------------------------------
\* the routes that read, compare, download or delete a document for a user
UserDocumentRoutes ==
    {"user_insights", "compare_strategies", "download_pdf", "delete_document"}

\* C27: every document read, compared, downloaded or deleted for a
\* logged-in user has that user in its user field, also after the user
\* switched the selected document to another user's document id.
C27_OwnDocumentsOnly ==
    response.route \in UserDocumentRoutes =>
        \A d \in response.docs : d.user = response.as_user

\* the part that holds: the pages of the selected document and the
\* deletion use the user's own documents only
SelectedDocumentIsOwn ==
    response.route \in {"user_insights", "delete_document"} =>
        \A d \in response.docs : d.user = response.as_user

AdminRoutes ==
    {"admin_dashboard", "admin_analytics", "admin_users", "admin_strategies",
     "admin_risks", "admin_logs"}

\* the session holds a user with role admin
AdminSession(s) ==
    /\ "user" \in DOMAIN s
    /\ "role" \in DOMAIN s
    /\ s["role"] = "admin"

\* C30: a session has role admin only if the stored record of its user has
\* role admin; register stores role "user" and changes no existing record;
\* logout clears the session; an admin route redirects to login unless the
\* session holds a user with role admin.
C30_AdminOnlyFromRecord ==
    /\ \A c \in Clients :
          ("role" \in DOMAIN sessions[c] /\ sessions[c]["role"] = "admin") =>
              /\ LoggedIn(sessions[c])
              /\ sessions[c]["user"] \in DOMAIN users
              /\ users[sessions[c]["user"]].role = "admin"
    /\ \A email \in DOMAIN users :
          IF email \in DOMAIN SeededUsers THEN users[email] = SeededUsers[email]
          ELSE users[email].role = "user"
    /\ response.route = "logout" => sessions[response.client] = None
    /\ response.route \in AdminRoutes =>
          (response.status = "login" <=> ~AdminSession(sessions[response.client]))

\* the administrator is logged in in one browser; a registered user, logged
\* in in another, asks for an admin page and is sent to the login page
C30_Witness ==
    /\ \E c \in Clients : AdminSession(sessions[c])
    /\ response.route = "admin_users"
    /\ response.status = "login"
    /\ response.as_user = "ann@corp"
    /\ sessions[response.client]["role"] = "user"

\* ------------------------------------------------------------------------
\* Specifications
\* ------------------------------------------------------------------------
Init ==
    /\ call = "none"
    /\ swot = None
    /\ intents = <<>>
    /\ scores = None
    /\ base_scores = None
    /\ scenario_type = ""
    /\ simulated = None
    /\ sim_result = None
    /\ sim_error = "none"
    /\ question = <<>>
    /\ raw_text = <<>>
    /\ nltk_available = FALSE
    /\ sentences = <<>>
    /\ vectorizer_called = FALSE
    /\ similarities = <<>>
    /\ answer = NoAnswer
    /\ qa_error = "none"
    /\ file = BlankFile
    /\ extracted = <<>>
    /\ readers = <<>>
    /\ extract_error = "none"
    /\ kp_tokens = <<>>
    /\ top_n = 0
    /\ key_phrases = <<>>
    /\ sum_doc = <<>>
    /\ num_sentences = 0
    /\ sentence_scores = <<>>
    /\ summary = <<>>
    /\ intent_text = <<>>
    /\ intent_counts = None
    /\ detected = <<>>
    /\ swot_text = <<>>
    /\ swot_result = None
    /\ syn_intents = <<>>
    /\ syn_swot = None
    /\ strategies = <<>>
    /\ kpi_intents = <<>>
    /\ kpis = {}
    /\ plan_strategies = <<>>
    /\ action_plan = <<>>
    /\ api_outcome = None
    /\ stored_doc = None
    /\ upload_error = "none"
    /\ prio_strategies = <<>>
    /\ prio_swot = None
    /\ prioritized = <<>>
    /\ prio_swot_again = None
    /\ prioritized_again = <<>>
    /\ llm_api = None
    /\ llm_scenario = <<>>
    /\ llm_result = None
    /\ doc_record = None
    /\ first_stored = None
    /\ api_calls = [k \in CacheKeys |-> 0]
    /\ requests = [w \in Workers |-> IdleRequest]
    /\ served = 0
    /\ users = SeededUsers
    /\ sessions = [c \in Clients |-> None]
    /\ documents = None
    /\ inserted = 0
    /\ response = NoResponse

\* the caller takes the returned value; the next call starts afresh (the
\* functions keep no state between calls)
Return ==
    /\ call # "none"
    /\ call' = "none"
    /\ swot' = None
    /\ intents' = <<>>
    /\ scores' = None
    /\ base_scores' = None
    /\ scenario_type' = ""
    /\ simulated' = None
    /\ sim_result' = None
    /\ sim_error' = "none"
    /\ question' = <<>>
    /\ raw_text' = <<>>
    /\ nltk_available' = FALSE
    /\ sentences' = <<>>
    /\ vectorizer_called' = FALSE
    /\ similarities' = <<>>
    /\ answer' = NoAnswer
    /\ qa_error' = "none"
    /\ file' = BlankFile
    /\ extracted' = <<>>
    /\ readers' = <<>>
    /\ extract_error' = "none"
    /\ kp_tokens' = <<>>
    /\ top_n' = 0
    /\ key_phrases' = <<>>
    /\ sum_doc' = <<>>
    /\ num_sentences' = 0
    /\ sentence_scores' = <<>>
    /\ summary' = <<>>
    /\ intent_text' = <<>>
    /\ intent_counts' = None
    /\ detected' = <<>>
    /\ swot_text' = <<>>
    /\ swot_result' = None
    /\ syn_intents' = <<>>
    /\ syn_swot' = None
    /\ strategies' = <<>>
    /\ kpi_intents' = <<>>
    /\ kpis' = {}
    /\ plan_strategies' = <<>>
    /\ action_plan' = <<>>
    /\ api_outcome' = None
    /\ stored_doc' = None
    /\ upload_error' = "none"
    /\ prio_strategies' = <<>>
    /\ prio_swot' = None
    /\ prioritized' = <<>>
    /\ prio_swot_again' = None
    /\ prioritized_again' = <<>>
    /\ llm_api' = None
    /\ llm_scenario' = <<>>
    /\ llm_result' = None
    /\ UNCHANGED <<cacheVars, webVars>>

NextScores == CalculateStrategicScores \/ Return
SpecScores == Init /\ [][NextScores]_vars

NextScenario == SimulateScenario \/ SimulateScenarioKeyError \/ Return
SpecScenario == Init /\ [][NextScenario]_vars

NextAnswer == GetDocumentAnswer \/ Return
SpecAnswer == Init /\ [][NextAnswer]_vars

NextExtract == ExtractText \/ Return
SpecExtract == Init /\ [][NextExtract]_vars

NextKeyPhrases == ExtractKeyPhrases \/ Return
SpecKeyPhrases == Init /\ [][NextKeyPhrases]_vars

NextSummary == GenerateSummary \/ Return
SpecSummary == Init /\ [][NextSummary]_vars

NextIntent == DetectBusinessIntent \/ Return
SpecIntent == Init /\ [][NextIntent]_vars

NextSwot == GenerateSwot \/ Return
SpecSwot == Init /\ [][NextSwot]_vars

NextStrategy == GenerateInitialStrategy \/ Return
SpecStrategy == Init /\ [][NextStrategy]_vars

NextKpis == GenerateKpis \/ Return
SpecKpis == Init /\ [][NextKpis]_vars

NextPlan == GenerateActionPlan \/ NlpGenerateActionPlan \/ Return
SpecPlan == Init /\ [][NextPlan]_vars

NextUpload == UploadDocument \/ Return
SpecUpload == Init /\ [][NextUpload]_vars

NextApi == GenerateFullStrategyProfile \/ GeneratePerformanceMetrics \/ SimulateScenarioLlm
            \/ Return
SpecApi == Init /\ [][NextApi]_vars

NextCache == CachedPageRequest
SpecCache == Init /\ [][NextCache]_vars

NextPipeline == SynthesizeFromClassifier \/ Return
SpecPipeline == Init /\ [][NextPipeline]_vars

NextAccounts == AccountRequest
SpecAccounts == Init /\ [][NextAccounts]_vars

NextDocuments == AccountRequest \/ DocumentRequest
SpecDocuments == Init /\ [][NextDocuments]_vars

NextPriority == PrioritizeStrategies \/ PrioritizeStrategiesAgain \/ Return
SpecPriority == Init /\ [][NextPriority]_vars

Next == CalculateStrategicScores \/ SimulateScenario \/ SimulateScenarioKeyError
          \/ GetDocumentAnswer \/ ExtractText \/ ExtractKeyPhrases \/ GenerateSummary
          \/ DetectBusinessIntent \/ GenerateSwot
          \/ GenerateInitialStrategy \/ GenerateKpis
          \/ GenerateActionPlan \/ NlpGenerateActionPlan \/ UploadDocument
          \/ PrioritizeStrategies \/ PrioritizeStrategiesAgain
          \/ GenerateFullStrategyProfile \/ GeneratePerformanceMetrics
          \/ SimulateScenarioLlm \/ CachedPageRequest
          \/ SynthesizeFromClassifier \/ AccountRequest \/ DocumentRequest \/ Return
Spec == Init /\ [][Next]_vars

====
